---- MODULE Spec2Model ----
(***************************************************************************)
(* A model of the asynchronous question-answering engine of assistx:       *)
(* the answer state store with its recency indexes                         *)
(* (assistx/answers_store.py), the idempotency store                       *)
(* (assistx/idempotency_store.py), the submission handlers                 *)
(* (assistx/api.py), the worker job (assistx/jobs.py) and the repair-loop  *)
(* executor (assistx/agents/executor.py).                                  *)
(***************************************************************************)
EXTENDS Integers, Sequences, FiniteSets, TLC

(***************************************************************************)
(* Bounds of the model.                                                    *)
(***************************************************************************)
\* the clock int(time.time() * 1000) takes the values 0..MaxTime
MaxTime == 1

\* the answer ids (uuid4 hex strings), ordered as Redis orders zset members of
\* equal score: lexicographically
Ids == {1, 2}
Times == 0..MaxTime

(***************************************************************************)
(* Values.                                                                 *)
(***************************************************************************)
\* Python's None in a string-valued field
Null == "null"
\* answers_store.ALL_STATUSES
ALL_STATUSES == {"QUEUED", "RUNNING", "DONE", "FAILED"}
\* a status argument that is not one of ALL_STATUSES (set_status takes any str)
OtherStatus == "CANCELLED"
AnyStatus == ALL_STATUSES \cup {OtherStatus}

VARIABLES
    answers,        \* Redis keys assistx:answers:<id>: live id -> record
    index_all,      \* ZSET assistx:answers:index:updated_at: member -> score
    index_status,   \* ZSETs assistx:answers:index:status:<st>: st -> (member -> score)
    now,            \* int(time.time() * 1000)
    finalized,      \* id -> the statuses set_result / set_error gave its live record
    raised,         \* whether the last call of a store function raised
    events,         \* the messages published so far, per pub/sub channel
    walk,           \* a client paging through list_answers_paginated
    ex,             \* one run of execute_with_repairs
    idemp,          \* Redis keys assistx:idemp:<key>: live key -> answer_id
    first_writer,   \* key -> the answer_id of the first save since the key is live
    loaded,         \* what the last idempotency load returned
    reqs,           \* the submissions in progress: request -> its position
    job,            \* one run of ask_question_job
    cache,          \* Redis keys assistx:qa:v1:<fp>:<qhash>: live key -> entry
    qa,             \* one run of answer_question
    rebuild,        \* one run of rebuild_index
    sandbox,        \* one run of analysis code in a runner
    snap,           \* one schema discovery and its fingerprint
    mut             \* the store mutations in progress, step by step

storeVars == <<answers, index_all, index_status, now, finalized, raised, events>>
idempVars == <<idemp, first_writer, loaded>>
cacheVars == <<cache, qa>>
vars == <<answers, index_all, index_status, now, finalized, raised, events, walk, ex,
          idemp, first_writer, loaded, reqs, job, cache, qa, rebuild,
          sandbox, snap, mut>>
auxVars == <<sandbox, snap, mut>>

(***************************************************************************)
(* Redis sorted sets: a function from the members to their scores.         *)
(***************************************************************************)
EmptyZ == [m \in {} |-> 0]

ZAdd(z, m, score) == [x \in (DOMAIN z) \cup {m} |-> IF x = m THEN score ELSE z[x]]

ZRem(z, m) == [x \in (DOMAIN z) \ {m} |-> z[x]]

(***************************************************************************)
(* answers_store: index helpers.                                           *)
(***************************************************************************)
\* mutant: the global index keeps the score of the creation
IndexUpsertAllCreatedAt(ia, obj) == ZAdd(ia, obj.id, obj.created_at)

\* the effect of _index_upsert on the global index
IndexUpsertAll(ia, obj) == ZAdd(ia, obj.id, obj.updated_at)

\* a faulty _index_upsert that adds to the status index without the zrem loop
IndexUpsertStatusNoRemove(ist, obj) ==
    [st \in ALL_STATUSES |->
        IF obj.status = st THEN ZAdd(ist[st], obj.id, obj.updated_at) ELSE ist[st]]

\* the effect of _index_upsert on the per-status indexes: zrem from every
\* status index, then zadd to the one of obj.status if it is in ALL_STATUSES
IndexUpsertStatus(ist, obj) ==
    [st \in ALL_STATUSES |->
        IF obj.status = st
        THEN ZAdd(ZRem(ist[st], obj.id), obj.id, obj.updated_at)
        ELSE ZRem(ist[st], obj.id)]

\* _index_remove
IndexRemoveAll(ia, aid) == ZRem(ia, aid)

IndexRemoveStatus(ist, aid) == [st \in ALL_STATUSES |-> ZRem(ist[st], aid)]

(***************************************************************************)
(* answers_store: publishing.  The module defines _publish twice; the      *)
(* second definition, _publish(answer), is the one bound at call time, and *)
(* every caller passes ev_type=..., so the call raises TypeError before    *)
(* anything is published.  The call is the last statement of each          *)
(* mutation: the record write and the index update are already done.       *)
(***************************************************************************)
\* the parameters of the function the name _publish is bound to
PublishParams == {"answer"}

\* _publish(obj, ev_type=...) raises TypeError when the bound function has no
\* parameter ev_type
PublishRaises == "ev_type" \notin PublishParams

\* the payload {"type": ..., "data": answer}
Envelope(ev_type, answer) == [type |-> ev_type, data |-> answer]

\* the body of the first definition, _publish(answer, ev_type): the envelope
\* goes to the channel of the answer and to the global channel
PublishBoth(ev, answer, ev_type) ==
    [scoped |-> [ev.scoped EXCEPT ![answer.id] = Append(@, Envelope(ev_type, answer))],
     global |-> Append(ev.global, Envelope(ev_type, answer))]

\* the body of the second definition, _publish(answer): an "update" envelope
\* goes to the channel of the answer only
PublishScoped(ev, answer) ==
    [ev EXCEPT !.scoped[answer.id] = Append(@, Envelope("update", answer))]

\* the call _publish(obj, ev_type=ev_type) that ends each mutation
PublishCall(obj, ev_type) ==
    /\ raised' = PublishRaises
    /\ events' = IF PublishRaises THEN events ELSE PublishScoped(events, obj)

\* a mutation that finds no record returns before _publish
NoPublish == raised' = FALSE /\ events' = events

(***************************************************************************)
(* answers_store: CRUD.  Each mutation is setex + _index_upsert + _publish.*)
(***************************************************************************)
Live(aid) == aid \in DOMAIN answers

\* user_meta: Optional[Dict]: <<>> is None, <<d>> is the dict d, a set of
\* <<key, value>> pairs
NoMeta == <<>>
EmptyMeta == {}
UserMetas == {NoMeta, <<EmptyMeta>>, <<{<<"mode", "auto">>}>>}

\* user_meta or {}
MetaOrEmpty(user_meta) ==
    IF user_meta = NoMeta \/ user_meta[1] = EmptyMeta THEN EmptyMeta ELSE user_meta[1]

\* mutant: the record of init_answer with the job id already set
NewAnswerWithJob(aid, question, user_meta) ==
    [id |-> aid, question |-> question, status |-> "QUEUED",
     created_at |-> now, updated_at |-> now,
     job_id |-> "j1", run_id |-> Null, data |-> Null, error |-> Null,
     meta |-> MetaOrEmpty(user_meta)]

\* the record init_answer builds
NewAnswer(aid, question, user_meta) ==
    [id |-> aid, question |-> question, status |-> "QUEUED",
     created_at |-> now, updated_at |-> now,
     job_id |-> Null, run_id |-> Null, data |-> Null, error |-> Null,
     meta |-> MetaOrEmpty(user_meta)]

\* setex(_key(id), ANSWERS_TTL_S, json.dumps(obj))
SetEx(obj) == [x \in (DOMAIN answers) \cup {obj.id} |-> IF x = obj.id THEN obj ELSE answers[x]]

TerminalStatuses == {"DONE", "FAILED"}

\* setex, then _index_upsert
Store(obj) ==
    /\ answers' = SetEx(obj)
    /\ index_all' = IndexUpsertAll(index_all, obj)
    /\ index_status' = IndexUpsertStatus(index_status, obj)

\* the record set_status writes
StatusUpdate(obj, status, job_id, run_id) ==
    [obj EXCEPT !.status = status,
                !.job_id = IF job_id # Null THEN job_id ELSE @,
                !.run_id = IF run_id # Null THEN run_id ELSE @,
                !.updated_at = now]

ResultUpdate(obj, data) ==
    [obj EXCEPT !.data = data, !.error = Null, !.status = "DONE", !.updated_at = now]

ErrorUpdate(obj, err) ==
    [obj EXCEPT !.error = err, !.status = "FAILED", !.updated_at = now]

\* the effect of init_answer on the store
InitAnswerWrite(aid, question, user_meta) ==
    /\ Store(NewAnswer(aid, question, user_meta))
    /\ finalized' = [finalized EXCEPT ![aid] = {}]
    /\ now' = now
    /\ PublishCall(NewAnswer(aid, question, user_meta), "new")

\* mutant: set_status without the early return, on a record made up when
\* there is none
SetStatusWriteAlways(aid, status, job_id, run_id) ==
    /\ LET obj == IF Live(aid) THEN answers[aid] ELSE NewAnswer(aid, <<>>, NoMeta)
       IN  /\ Store(StatusUpdate(obj, status, job_id, run_id))
           /\ PublishCall(StatusUpdate(obj, status, job_id, run_id), "update")
    /\ UNCHANGED <<now, finalized>>

\* the effect of set_status on the store
SetStatusWrite(aid, status, job_id, run_id) ==
    /\ IF Live(aid)
       THEN /\ Store(StatusUpdate(answers[aid], status, job_id, run_id))
            /\ PublishCall(StatusUpdate(answers[aid], status, job_id, run_id), "update")
       ELSE /\ UNCHANGED <<answers, index_all, index_status>>
            /\ NoPublish
    /\ UNCHANGED <<now, finalized>>

\* the effect of set_result on the store
SetResultWrite(aid, data) ==
    /\ IF Live(aid)
       THEN /\ Store(ResultUpdate(answers[aid], data))
            /\ finalized' = [finalized EXCEPT ![aid] = @ \cup {"DONE"}]
            /\ PublishCall(ResultUpdate(answers[aid], data), "update")
       ELSE /\ UNCHANGED <<answers, index_all, index_status, finalized>>
            /\ NoPublish
    /\ now' = now

\* the effect of set_error on the store
SetErrorWrite(aid, err) ==
    /\ IF Live(aid)
       THEN /\ Store(ErrorUpdate(answers[aid], err))
            /\ finalized' = [finalized EXCEPT ![aid] = @ \cup {"FAILED"}]
            /\ PublishCall(ErrorUpdate(answers[aid], err), "update")
       ELSE /\ UNCHANGED <<answers, index_all, index_status, finalized>>
            /\ NoPublish
    /\ now' = now

\* whether a mutation of aid raises: it does when it gets as far as _publish
Raises(aid) == Live(aid) /\ PublishRaises

\* the variables no store function touches
aroundStore == <<walk, ex, idemp, first_writer, loaded, reqs, job, cacheVars, rebuild, auxVars>>

\* a direct call of each store function
init_answer(aid, question, user_meta) ==
    InitAnswerWrite(aid, question, user_meta) /\ UNCHANGED aroundStore

set_status(aid, status, job_id, run_id) ==
    SetStatusWrite(aid, status, job_id, run_id) /\ UNCHANGED aroundStore

set_result(aid, data) == SetResultWrite(aid, data) /\ UNCHANGED aroundStore

set_error(aid, err) == SetErrorWrite(aid, err) /\ UNCHANGED aroundStore

\* the key assistx:answers:<id> reaches its TTL (ANSWERS_TTL_S after the last
\* write) and Redis evicts it; the index entries stay behind
Expire(aid) ==
    /\ Live(aid)
    /\ answers' = [x \in (DOMAIN answers) \ {aid} |-> answers[x]]
    /\ finalized' = [finalized EXCEPT ![aid] = {}]
    /\ UNCHANGED <<index_all, index_status, now, raised, events>>
    /\ UNCHANGED aroundStore

\* a millisecond passes
Tick ==
    /\ now < MaxTime
    /\ now' = now + 1
    /\ UNCHANGED <<answers, index_all, index_status, finalized, raised, events>>
    /\ UNCHANGED aroundStore

(***************************************************************************)
(* The store driven through its public functions, one call at a time.      *)
(***************************************************************************)
Questions == {<<"A", "b">>}
Payloads == {"d1"}
ErrorTexts == {"e1"}
JobArgs == {Null, "j1"}
RunArgs == {Null}

InitStore ==
    /\ answers = EmptyZ
    /\ index_all = EmptyZ
    /\ index_status = [st \in ALL_STATUSES |-> EmptyZ]
    /\ now = 0
    /\ finalized = [aid \in Ids |-> {}]
    /\ raised = FALSE
    /\ events = [scoped |-> [aid \in Ids |-> <<>>], global |-> <<>>]

\* the parts of the state a specification leaves alone
IdleWalk == walk = [phase |-> "idle"]
IdleExec == ex = [pc |-> "idle"]
IdleIdemp == idemp = EmptyZ /\ first_writer = EmptyZ /\ loaded = [key |-> Null]
IdleReqs == reqs = EmptyZ
IdleJob == job = [pc |-> "idle"]
\* answer_question has not been called
QaIdle ==
    LET none == [answer |-> Null, computed |-> [t |-> "none", kt |-> "-", k |-> "-"],
                 cached |-> FALSE, run_id |-> Null]
    IN  [pc |-> "idle", question |-> <<>>, fp |-> Null, ckey |-> <<>>,
         read |-> "none", write |-> "none", chain |-> "none",
         failed_at |-> "none", log |-> "none",
         expect |-> {}, stored |-> none, out |-> none, result |-> none]
IdleCache == cache = EmptyZ /\ qa = QaIdle
IdleRebuild == rebuild = [pc |-> "idle"]
IdleAux == sandbox = [pc |-> "idle"] /\ snap = [pc |-> "idle"] /\ mut = <<>>

Init == InitStore /\ IdleWalk /\ IdleExec /\ IdleIdemp /\ IdleReqs /\ IdleJob /\ IdleCache /\ IdleRebuild /\ IdleAux

Next ==
    \/ \E aid \in Ids, q \in Questions : init_answer(aid, q, NoMeta)
    \/ \E aid \in Ids, st \in AnyStatus, j \in JobArgs, r \in RunArgs : set_status(aid, st, j, r)
    \/ \E aid \in Ids, d \in Payloads : set_result(aid, d)
    \/ \E aid \in Ids, e \in ErrorTexts : set_error(aid, e)
    \/ \E aid \in Ids : Expire(aid)
    \/ Tick

Spec == Init /\ [][Next]_vars

(***************************************************************************)
(* Text: the characters of a question, str.lower(), str.strip() and the    *)
(* substring test `a in b`.                                                *)
(***************************************************************************)
LowerChar(c) == CASE c = "A" -> "a" [] c = "B" -> "b" [] OTHER -> c

Lower(s) == [i \in 1..Len(s) |-> LowerChar(s[i])]

RECURSIVE LStrip(_)
LStrip(s) == IF s # <<>> /\ Head(s) = " " THEN LStrip(Tail(s)) ELSE s

RECURSIVE RStrip(_)
RStrip(s) == IF s # <<>> /\ s[Len(s)] = " " THEN RStrip(SubSeq(s, 1, Len(s) - 1)) ELSE s

Strip(s) == RStrip(LStrip(s))

\* needle in hay
Contains(hay, needle) ==
    \E i \in 0..(Len(hay) - Len(needle)) : SubSeq(hay, i + 1, i + Len(needle)) = needle

(***************************************************************************)
(* answers_store: cursor pagination.                                       *)
(***************************************************************************)
\* max(50, limit * 3): the least window, and the factor
MinWindow == 50
WindowFactor == 3
\* while ... loops < 6
MaxLoops == 6

\* no cursor (None), and the cursor f"{updated_at}:{id}" as its two parts
NoCursor == <<>>
MakeCursor(obj) == <<obj.updated_at, obj.id>>

\* _parse_cursor: None for no cursor, else (float(score_str), aid)
ParseCursor(cur) == IF cur = NoCursor THEN NoCursor ELSE <<cur[1], cur[2]>>

\* the bound "+inf", and the exclusive bound "(<score>"
PlusInf == <<>>
Excl(score) == <<score>>

\* maxb = "+inf" if not cur else f"({int(cur[0])}": the id of the cursor is
\* not used
CursorBound(cur) == IF ParseCursor(cur) = NoCursor THEN PlusInf ELSE Excl(ParseCursor(cur)[1])

\* the order of ZREVRANGEBYSCORE: score descending, members of equal score in
\* descending lexicographic order
ZBefore(z, a, b) == z[a] > z[b] \/ (z[a] = z[b] /\ a > b)

RECURSIVE ZSortDesc(_, _)
ZSortDesc(z, members) ==
    IF members = {} THEN <<>>
    ELSE LET m == CHOOSE a \in members : \A b \in members \ {a} : ZBefore(z, a, b)
         IN  <<<<m, z[m]>>>> \o ZSortDesc(z, members \ {m})

\* the first num entries of that order among members, none of which has a
\* score above s: the members of score s, then those below
RECURSIVE ZTakeFrom(_, _, _, _)
ZTakeFrom(z, members, s, num) ==
    IF num = 0 \/ members = {} THEN <<>>
    ELSE LET level == {m \in members : z[m] = s}
             sorted == ZSortDesc(z, level)
             taken == SubSeq(sorted, 1, IF Len(sorted) < num THEN Len(sorted) ELSE num)
         IN  taken \o ZTakeFrom(z, members \ level, s - 1, num - Len(taken))

\* zrevrangebyscore(zkey, maxb, "-inf", start=0, num=num, withscores=True)
ZRevRangeByScore(z, maxb, num) ==
    LET inRange == {m \in DOMAIN z : maxb = PlusInf \/ z[m] < maxb[1]}
    IN  IF inRange = {} THEN <<>>
        ELSE LET top == CHOOSE s \in {z[m] : m \in inRange} :
                            \A m \in inRange : z[m] <= s
             IN  ZTakeFrom(z, inRange, top, num)

\* _index_key_for_status(status if status in ALL_STATUSES else None)
IndexFor(status) == IF status \in ALL_STATUSES THEN index_status[status] ELSE index_all

\* max(50, limit * 3)
Window(limit) == IF limit * WindowFactor > MinWindow THEN limit * WindowFactor ELSE MinWindow

\* the for loop over one batch, from its i-th entry on
RECURSIVE ScanBatch(_, _, _, _, _, _, _)
ScanBatch(batch, i, items, removed, status, q_norm, limit) ==
    IF i > Len(batch) THEN [items |-> items, removed |-> removed, next_cursor |-> NoCursor]
    ELSE LET aid == batch[i][1] IN
         IF aid \notin DOMAIN answers
         THEN ScanBatch(batch, i + 1, items, removed \cup {aid}, status, q_norm, limit)
         ELSE LET obj == answers[aid] IN
              IF status # Null /\ obj.status # status
              THEN ScanBatch(batch, i + 1, items, removed, status, q_norm, limit)
              ELSE IF q_norm # <<>> /\ ~Contains(Lower(obj.question), q_norm)
              THEN ScanBatch(batch, i + 1, items, removed, status, q_norm, limit)
              ELSE IF Len(items) + 1 = limit
              THEN [items |-> Append(items, obj), removed |-> removed,
                    next_cursor |-> MakeCursor(obj)]
              ELSE ScanBatch(batch, i + 1, Append(items, obj), removed, status, q_norm, limit)

\* the while loop: windows of the index below maxb, until limit items are
\* collected, the index is exhausted or MaxLoops windows were read
RECURSIVE ListLoop(_, _, _, _, _, _, _, _)
ListLoop(maxb, items, next_cursor, removed, loops, status, q_norm, limit) ==
    IF Len(items) < limit /\ loops < MaxLoops
    THEN LET z == IndexFor(status)
             zNow == [m \in (DOMAIN z) \ removed |-> z[m]]
             batch == ZRevRangeByScore(zNow, maxb, Window(limit))
         IN  IF batch = <<>>
             THEN [items |-> items, next_cursor |-> next_cursor, removed |-> removed]
             ELSE LET r == ScanBatch(batch, 1, items, removed, status, q_norm, limit)
                  IN  ListLoop(Excl(batch[Len(batch)][2]), r.items, r.next_cursor,
                               r.removed, loops + 1, status, q_norm, limit)
    ELSE [items |-> items, next_cursor |-> next_cursor, removed |-> removed]

\* list_answers_paginated: the page, the next cursor and the stale index
\* entries the scan removed
list_answers_paginated(status, q, limit, cursor) ==
    ListLoop(CursorBound(cursor), <<>>, NoCursor, {}, 0, status, Lower(Strip(q)), limit)

\* the index after _index_remove of every id in removed
\* mutant: the stale ids are removed from the global index only
RemoveStaleGlobalOnly(removed) ==
    /\ index_all' = [m \in (DOMAIN index_all) \ removed |-> index_all[m]]
    /\ index_status' = index_status

RemoveStale(removed) ==
    /\ index_all' = [m \in (DOMAIN index_all) \ removed |-> index_all[m]]
    /\ index_status' = [st \in ALL_STATUSES |->
                          [m \in (DOMAIN index_status[st]) \ removed |-> index_status[st][m]]]

(***************************************************************************)
(* A client that walks the listing page by page, passing each next_cursor  *)
(* to the next call, while nothing is written.                             *)
(***************************************************************************)
\* the largest limit a walk asks for
MaxLimit == 2

WalkIdle == [phase |-> "idle", status |-> Null, q |-> <<>>, limit |-> 0,
             cursor |-> NoCursor, seen |-> <<>>]

StartWalk(status, q, limit) ==
    /\ walk.phase = "idle"
    /\ walk' = [phase |-> "walking", status |-> status, q |-> q, limit |-> limit,
                cursor |-> NoCursor, seen |-> <<>>]
    /\ UNCHANGED <<storeVars, ex, idempVars, reqs, job, cacheVars, rebuild, auxVars>>

ListPage ==
    /\ walk.phase = "walking"
    /\ LET page == list_answers_paginated(walk.status, walk.q, walk.limit, walk.cursor) IN
       /\ RemoveStale(page.removed)
       /\ walk' = [walk EXCEPT
                     !.seen = @ \o [i \in 1..Len(page.items) |-> page.items[i].id],
                     !.cursor = page.next_cursor,
                     !.phase = IF page.next_cursor = NoCursor THEN "finished" ELSE "walking"]
    /\ UNCHANGED <<answers, now, finalized, raised, events, ex, idempVars, reqs, job,
                   cacheVars, rebuild, auxVars>>

WalkQuestions == {<<"A", "b">>, <<"c">>}
WalkFilters == {<<>>, <<" ", "a", "B", " ">>}
WalkStatuses == {Null, "QUEUED", "DONE", "FAILED"}

InitWalk == InitStore /\ walk = WalkIdle /\ IdleExec /\ IdleIdemp /\ IdleReqs /\ IdleJob /\ IdleCache /\ IdleRebuild /\ IdleAux

\* the writes precede the walk
NextWalk ==
    \/ \E aid \in Ids, q \in WalkQuestions : walk.phase = "idle" /\ init_answer(aid, q, NoMeta)
    \/ \E aid \in Ids : walk.phase = "idle" /\ set_status(aid, "RUNNING", Null, Null)
    \/ \E aid \in Ids, d \in Payloads : walk.phase = "idle" /\ set_result(aid, d)
    \/ \E aid \in Ids, e \in ErrorTexts : walk.phase = "idle" /\ set_error(aid, e)
    \/ \E aid \in Ids : walk.phase = "idle" /\ Expire(aid)
    \/ walk.phase = "idle" /\ Tick
    \/ \E st \in WalkStatuses, q \in WalkFilters, limit \in 1..MaxLimit : StartWalk(st, q, limit)
    \/ ListPage

SpecWalk == InitWalk /\ [][NextWalk]_vars

(***************************************************************************)
(* A client that pages through three stored answers, as in the listing     *)
(* scenario of three FAILED answers and limit 2.                           *)
(***************************************************************************)
PageIds == {1, 2, 3}
PageStatuses == {"DONE", "FAILED"}

\* three live answers, written at t[1], t[2], t[3], and their index entries
InitPage ==
    /\ \E t \in [PageIds -> Times], st \in [PageIds -> PageStatuses] :
          /\ answers = [aid \in PageIds |->
                          [id |-> aid, question |-> <<"c">>, status |-> st[aid],
                           created_at |-> 0, updated_at |-> t[aid],
                           job_id |-> Null, run_id |-> Null,
                           data |-> IF st[aid] = "DONE" THEN "d1" ELSE Null,
                           error |-> IF st[aid] = "FAILED" THEN "e1" ELSE Null,
                           meta |-> EmptyMeta]]
          /\ index_all = [m \in PageIds |-> t[m]]
          /\ index_status = [s \in ALL_STATUSES |->
                               [m \in {x \in PageIds : st[x] = s} |-> t[m]]]
    /\ now = MaxTime
    /\ finalized = [aid \in Ids |-> {}]
    /\ raised = FALSE
    /\ events = [scoped |-> [aid \in Ids |-> <<>>], global |-> <<>>]
    /\ walk = WalkIdle
    /\ IdleExec /\ IdleIdemp /\ IdleReqs /\ IdleJob /\ IdleCache /\ IdleRebuild /\ IdleAux

NextPage ==
    \/ \E st \in {Null, "FAILED"}, limit \in 1..MaxLimit : StartWalk(st, <<>>, limit)
    \/ ListPage

SpecPage == InitPage /\ [][NextPage]_vars

(***************************************************************************)
(* A client that repeats one list_answers_paginated call while nothing is  *)
(* written, over an index that holds stale entries: ids whose record Redis *)
(* has evicted.  The entries of the evicted records are newer than the     *)
(* live ones (the live records are the ones still being read).             *)
(***************************************************************************)
\* the largest number of stale index entries
MaxStale == 50
\* the number of times the client makes the call
MaxCalls == 3

StaleIds(n) == 3..(n + 2)

\* what the client sees of a page: the ids of its items and the cursor
PageOf(page) ==
    [ids |-> [i \in 1..Len(page.items) |-> page.items[i].id],
     next_cursor |-> page.next_cursor]

\* the first call
ListCall(status, q, limit) ==
    /\ walk.phase = "idle"
    /\ LET page == list_answers_paginated(status, q, limit, NoCursor) IN
       /\ RemoveStale(page.removed)
       /\ walk' = [phase |-> "called", status |-> status, q |-> q, limit |-> limit,
                   cursor |-> NoCursor, results |-> <<PageOf(page)>>]
    /\ UNCHANGED <<answers, now, finalized, raised, events, ex, idempVars, reqs, job,
                   cacheVars, rebuild, auxVars>>

\* the same call again
ListRepeat ==
    /\ walk.phase = "called"
    /\ Len(walk.results) < MaxCalls
    /\ LET page == list_answers_paginated(walk.status, walk.q, walk.limit, walk.cursor) IN
       /\ RemoveStale(page.removed)
       /\ walk' = [walk EXCEPT !.results = Append(@, PageOf(page))]
    /\ UNCHANGED <<answers, now, finalized, raised, events, ex, idempVars, reqs, job,
                   cacheVars, rebuild, auxVars>>

\* one or two live QUEUED answers written at t[1], t[2], below n stale entries
\* of distinct later scores
InitStale ==
    /\ \E n \in (MaxStale - 1)..MaxStale, live \in (SUBSET Ids) \ {{}}, t \in [Ids -> Times] :
          /\ answers = [aid \in live |->
                          [id |-> aid, question |-> <<"c">>, status |-> "QUEUED",
                           created_at |-> t[aid], updated_at |-> t[aid],
                           job_id |-> Null, run_id |-> Null, data |-> Null, error |-> Null,
                           meta |-> EmptyMeta]]
          /\ index_all = [m \in live \cup StaleIds(n) |->
                            IF m \in live THEN t[m] ELSE MaxTime + m]
          /\ index_status = [st \in ALL_STATUSES |->
                               IF st = "QUEUED" THEN index_all ELSE EmptyZ]
    /\ now = MaxTime
    /\ finalized = [aid \in Ids |-> {}]
    /\ raised = FALSE
    /\ events = [scoped |-> [aid \in Ids |-> <<>>], global |-> <<>>]
    /\ walk = [phase |-> "idle"]
    /\ IdleExec /\ IdleIdemp /\ IdleReqs /\ IdleJob /\ IdleCache /\ IdleRebuild /\ IdleAux

NextStale ==
    \/ \E st \in {Null, "QUEUED"}, limit \in 1..MaxLimit : ListCall(st, <<>>, limit)
    \/ ListRepeat

SpecStale == InitStale /\ [][NextStale]_vars

(***************************************************************************)
(* agents/executor.py: execute_with_repairs.  The oracle (draft_cypher,    *)
(* repair_cypher) and the database (session.run) are outside the program:  *)
(* each call returns any value or raises.                                  *)
(***************************************************************************)
\* the largest max_attempts a run is given
MaxAttempts == 3

Cyphers == {"c1", "c2"}
\* a plan without the key "cypher"
NoKey == "nokey"
Plans == Cyphers \cup {NoKey}
RowSets == {"rows0", "rows1"}
DbErrors == {"err1"}
Notes == {Null, "note1"}

\* plan.get("cypher", default)
PlanCypher(plan, default) == IF plan = NoKey THEN default ELSE plan

\* for attempt in range(max_attempts): the next iteration, or the end of the loop
LoopHead(attempt, max_attempts) == IF attempt < max_attempts THEN "try" ELSE "fell_through"

ExStart(n) ==
    [pc |-> "draft", max_attempts |-> n, attempt |-> 0, cypher |-> "", notes |-> Null,
     attempts |-> <<>>, execs |-> 0, repairs |-> 0, drafted |-> FALSE,
     repair_calls |-> <<>>, cb |-> <<>>,
     result |-> [kind |-> "none", cypher |-> "", rows |-> "", attempts |-> <<>>]]

\* plan = draft_cypher(question, schema); cypher = plan.get("cypher", "")
\* the variables execute_with_repairs does not touch
aroundExec == <<storeVars, walk, idempVars, reqs, job, cacheVars, rebuild, auxVars>>

ExDraft(plan, notes) ==
    /\ ex.pc = "draft"
    /\ UNCHANGED aroundExec
    /\ LET head == LoopHead(0, ex.max_attempts) IN
       ex' = [ex EXCEPT !.cypher = PlanCypher(plan, ""), !.notes = notes, !.pc = head,
                        !.drafted = TRUE,
                        \* the loop body never ran: the function returns None
                        !.result = IF head = "fell_through"
                                   THEN [@ EXCEPT !.kind = "None"] ELSE @]

\* draft_cypher raises (transport error, unparseable response)
ExDraftRaises ==
    /\ ex.pc = "draft"
    /\ UNCHANGED aroundExec
    /\ ex' = [ex EXCEPT !.pc = "raised", !.result = [@ EXCEPT !.kind = "raised"]]

\* a faulty success branch that records the attempt and goes on to the next
\* iteration instead of returning
OnSuccessNoReturn(e, rows) ==
    [e EXCEPT !.execs = @ + 1,
              !.attempts = Append(@, [cypher |-> e.cypher, ok |-> TRUE, error |-> Null,
                                      fix |-> e.notes]),
              !.attempt = @ + 1,
              !.pc = LoopHead(e.attempt + 1, e.max_attempts),
              !.result = IF LoopHead(e.attempt + 1, e.max_attempts) = "fell_through"
                         THEN [kind |-> "tuple", cypher |-> e.cypher, rows |-> rows,
                               attempts |-> Append(e.attempts,
                                   [cypher |-> e.cypher, ok |-> TRUE, error |-> Null,
                                    fix |-> e.notes])]
                         ELSE @]

\* s.run(cypher) succeeded: attempts.append({... "ok": True, "fix": plan.get("notes")});
\* return cypher, rows, attempts
OnSuccess(e, rows) ==
    LET log == Append(e.attempts, [cypher |-> e.cypher, ok |-> TRUE, error |-> Null,
                                   fix |-> e.notes])
    IN  [e EXCEPT !.execs = @ + 1, !.attempts = log, !.pc = "returned",
                  !.result = [kind |-> "tuple", cypher |-> e.cypher, rows |-> rows,
                              attempts |-> log]]

\* mutant: the repairer is called after the last attempt as well
OnFailureAlwaysRepairs(e, err) ==
    [e EXCEPT !.execs = @ + 1,
              !.attempts = Append(@, [cypher |-> e.cypher, ok |-> FALSE, error |-> err,
                                      fix |-> Null]),
              !.pc = "repair"]

\* s.run(cypher) raised: attempts.append({... "ok": False, "error": err});
\* raise on the last attempt, else go on to repair
OnFailure(e, err) ==
    LET log == Append(e.attempts, [cypher |-> e.cypher, ok |-> FALSE, error |-> err,
                                   fix |-> Null])
        last == e.attempt >= e.max_attempts - 1
    IN  [e EXCEPT !.execs = @ + 1, !.attempts = log,
                  !.pc = IF last THEN "raised" ELSE "repair",
                  !.result = IF last THEN [@ EXCEPT !.kind = "raised"] ELSE @]

\* log_cb(event="try_cypher", payload={"cypher": cypher, "attempt": attempt})
TryEvent(e) == [event |-> "try_cypher", cypher |-> e.cypher, attempt |-> e.attempt]

\* log_cb(event="repair", payload={"from": attempts[-1]["cypher"], "to": cypher,
\* "reason": plan2.get("fix")})
RepairEvent(e, to, fix) ==
    [event |-> "repair", from |-> e.attempts[Len(e.attempts)].cypher, to |-> to,
     reason |-> fix]

ExTryOk(rows) ==
    /\ ex.pc = "try"
    /\ UNCHANGED aroundExec
    /\ ex' = [OnSuccess(ex, rows) EXCEPT !.cb = Append(@, TryEvent(ex))]

ExTryFail(err) ==
    /\ ex.pc = "try"
    /\ UNCHANGED aroundExec
    /\ ex' = [OnFailure(ex, err) EXCEPT !.cb = Append(@, TryEvent(ex))]

\* the call repair_cypher(cypher, err, schema, question) and the plan it
\* returned (NoKey when it raised): err is the text just appended to the log
RepairCall(e, plan2) ==
    [cypher |-> e.cypher, error |-> e.attempts[Len(e.attempts)].error, proposed |-> plan2]

\* plan2 = repair_cypher(cypher, err, schema, question);
\* cypher = plan2.get("cypher", cypher); plan = plan2
ExRepair(plan2, notes) ==
    /\ ex.pc = "repair"
    /\ UNCHANGED aroundExec
    /\ ex' = [ex EXCEPT !.repairs = @ + 1, !.cypher = PlanCypher(plan2, @), !.notes = notes,
                        !.repair_calls = Append(@, RepairCall(ex, plan2)),
                        !.cb = Append(@, RepairEvent(ex, PlanCypher(plan2, ex.cypher), notes)),
                        !.attempt = @ + 1, !.pc = LoopHead(ex.attempt + 1, ex.max_attempts)]

\* repair_cypher raises: the error leaves the except block and the function
ExRepairRaises ==
    /\ ex.pc = "repair"
    /\ UNCHANGED aroundExec
    /\ ex' = [ex EXCEPT !.repairs = @ + 1, !.pc = "raised",
                        !.repair_calls = Append(@, RepairCall(ex, NoKey)),
                        !.result = [@ EXCEPT !.kind = "raised"]]

InitExec ==
    /\ InitStore /\ IdleWalk /\ IdleIdemp /\ IdleReqs /\ IdleJob /\ IdleCache /\ IdleRebuild /\ IdleAux
    /\ \E n \in 0..MaxAttempts : ex = ExStart(n)

NextExec ==
    \/ \E plan \in Plans, notes \in Notes : ExDraft(plan, notes)
    \/ ExDraftRaises
    \/ \E rows \in RowSets : ExTryOk(rows)
    \/ \E err \in DbErrors : ExTryFail(err)
    \/ \E plan2 \in Plans, notes \in Notes : ExRepair(plan2, notes)
    \/ ExRepairRaises

SpecExec == InitExec /\ [][NextExec]_vars

(***************************************************************************)
(* idempotency_store.py: save and load.                                    *)
(***************************************************************************)
IdempKeys == {"k1", "k2"}

\* _r.setex(_key(key), IDEMP_TTL_S, json.dumps(record)): the record
\* {"answer_id": aid} replaces whatever the key held
IdempSet(m, key, aid) == [k \in (DOMAIN m) \cup {key} |-> IF k = key THEN aid ELSE m[k]]

\* _r.get(_key(key)): the record, or None
IdempGet(m, key) ==
    IF key \in DOMAIN m THEN [hit |-> TRUE, answer_id |-> m[key]]
    ELSE [hit |-> FALSE, answer_id |-> 0]

\* the variables the idempotency store does not touch
aroundIdemp == <<storeVars, walk, ex, reqs, job, cacheVars, rebuild, auxVars>>

save(key, aid) ==
    /\ idemp' = IdempSet(idemp, key, aid)
    /\ first_writer' = IF key \in DOMAIN idemp THEN first_writer
                       ELSE IdempSet(first_writer, key, aid)
    /\ UNCHANGED <<loaded, aroundIdemp>>

load(key) ==
    /\ loaded' = [key |-> key, got |-> IdempGet(idemp, key),
                  first |-> IdempGet(first_writer, key)]
    /\ UNCHANGED <<idemp, first_writer, aroundIdemp>>

\* the key assistx:idemp:<key> reaches its TTL (IDEMP_TTL_S)
IdempExpire(key) ==
    /\ key \in DOMAIN idemp
    /\ idemp' = [k \in (DOMAIN idemp) \ {key} |-> idemp[k]]
    /\ first_writer' = [k \in (DOMAIN first_writer) \ {key} |-> first_writer[k]]
    /\ UNCHANGED <<loaded, aroundIdemp>>

InitIdemp == InitStore /\ IdleWalk /\ IdleExec /\ IdleIdemp /\ IdleReqs /\ IdleJob /\ IdleCache /\ IdleRebuild /\ IdleAux

NextIdemp ==
    \/ \E key \in IdempKeys, aid \in Ids : save(key, aid)
    \/ \E key \in IdempKeys : load(key)
    \/ \E key \in IdempKeys : IdempExpire(key)

SpecIdemp == InitIdemp /\ [][NextIdemp]_vars

(***************************************************************************)
(* api.py: the submission handlers api_ask_async and api_ask (modes async  *)
(* and auto; mode sync touches neither store).  A handler is a sequence of *)
(* Redis calls, and requests run in concurrent threads: each call is a     *)
(* step.  init_answer writes the record and the index and then raises at   *)
(* its _publish call, so a handler that gets to init_answer ends there     *)
(* with the error: enqueue, set_status(QUEUED, job_id) and idemp_save are  *)
(* never reached.                                                          *)
(***************************************************************************)
Requests == {"r1", "r2"}
Handlers == {"ask_async", "ask:async", "ask:auto"}
KeyArgs == {Null, "k1"}

NoResponse == [kind |-> "none", answer_id |-> 0]

\* the answer ids new_answer_id has handed out
UsedIds == {reqs[r].answer_id : r \in DOMAIN reqs} \ {0}

\* the variables a handler leaves alone besides the stores
aroundSubmit == <<walk, ex, job, cacheVars, rebuild, auxVars>>

\* the request arrives
Arrive(r, handler, key) ==
    /\ r \notin DOMAIN reqs
    /\ reqs' = [x \in (DOMAIN reqs) \cup {r} |->
                  IF x = r THEN [handler |-> handler, key |-> key, pc |-> "load",
                                 answer_id |-> 0, evicted |-> FALSE,
                                 response |-> NoResponse]
                  ELSE reqs[x]]
    /\ UNCHANGED <<storeVars, idempVars, aroundSubmit>>

\* what a handler returns on an idempotency hit on the live answer existing
HitResponse(handler, existing) ==
    IF handler = "ask:auto" /\ existing.status = "DONE" /\ existing.data # Null
    THEN [kind |-> "data", answer_id |-> 0]
    ELSE [kind |-> "answer_id", answer_id |-> existing.id]

\* if body.idempotency_key: hit = idemp_load(key); if hit: existing =
\* get_answer(hit["answer_id"]); if existing: return ...
SubmitLoad(r) ==
    /\ r \in DOMAIN reqs /\ reqs[r].pc = "load"
    /\ LET key == reqs[r].key
           hit == IdempGet(idemp, key)
       IN  /\ IF key # Null /\ hit.hit /\ Live(hit.answer_id)
              THEN reqs' = [reqs EXCEPT ![r].pc = "returned",
                              ![r].response = HitResponse(reqs[r].handler, answers[hit.answer_id])]
              ELSE reqs' = [reqs EXCEPT ![r].pc = "create",
                              ![r].evicted = (key # Null /\ hit.hit)]
           /\ loaded' = IF key # Null
                        THEN [key |-> key, got |-> hit, first |-> IdempGet(first_writer, key)]
                        ELSE loaded
    /\ UNCHANGED <<storeVars, idemp, first_writer, aroundSubmit>>

\* answer_id = new_answer_id(); init_answer(answer_id, body.question, ...)
SubmitCreate(r, aid, question) ==
    /\ r \in DOMAIN reqs /\ reqs[r].pc = "create"
    /\ aid \notin UsedIds /\ ~Live(aid)
    /\ InitAnswerWrite(aid, question, NoMeta)
    /\ reqs' = [reqs EXCEPT ![r].answer_id = aid,
                            ![r].pc = IF PublishRaises THEN "failed" ELSE "enqueue",
                            ![r].response = IF PublishRaises
                                            THEN [kind |-> "error", answer_id |-> 0] ELSE @]
    /\ UNCHANGED <<idempVars, aroundSubmit>>

InitSubmit == InitStore /\ IdleWalk /\ IdleExec /\ IdleIdemp /\ IdleReqs /\ IdleJob /\ IdleCache /\ IdleRebuild /\ IdleAux

NextSubmit ==
    \/ \E r \in Requests, handler \in Handlers, key \in KeyArgs : Arrive(r, handler, key)
    \/ \E r \in Requests : SubmitLoad(r)
    \/ \E r \in Requests, aid \in Ids, q \in Questions : SubmitCreate(r, aid, q)
    \/ \E aid \in Ids : Expire(aid)
    \/ Tick

SpecSubmit == InitSubmit /\ [][NextSubmit]_vars

\* the handlers on a store in which idempotency records were saved earlier,
\* possibly for answers whose record has since reached its TTL
InitEvicted == InitSubmit

NextEvicted ==
    \/ \E aid \in Ids : save("k1", aid)
    \/ \E r \in Requests, handler \in Handlers, key \in KeyArgs : Arrive(r, handler, key)
    \/ \E r \in Requests : SubmitLoad(r)
    \/ \E r \in Requests, aid \in Ids, q \in Questions : SubmitCreate(r, aid, q)
    \/ \E aid \in Ids : Expire(aid)
    \/ Tick

SpecEvicted == InitEvicted /\ [][NextEvicted]_vars

(***************************************************************************)
(* jobs.py: ask_question_job, run by a worker for one work item.  The      *)
(* chain answer_question is outside the program's control: it returns or   *)
(* raises.  A store call that raises inside the try block is caught by the *)
(* except branch; the first set_status is outside the try block.           *)
(***************************************************************************)
RunIds == {Null, "run1"}
Traceback == "tb"

JobQueued(aid) ==
    [pc |-> "queued", aid |-> aid, chain |-> "none", out_run_id |-> Null, calls |-> <<>>]

\* the variables the job leaves alone besides the answer store
aroundJob == <<walk, ex, idempVars, reqs, cacheVars, rebuild, auxVars>>

\* JOBS_STARTED.inc(); set_status(answer_id, "RUNNING"); neo = Neo4jClient()
JobStart ==
    /\ job.pc = "queued"
    /\ SetStatusWrite(job.aid, "RUNNING", Null, Null)
    /\ job' = [job EXCEPT !.pc = IF Raises(job.aid) THEN "raised" ELSE "chain",
                          !.calls = Append(@, "set_status:RUNNING")]
    /\ UNCHANGED aroundJob

\* out = answer_question(...) returns
JobChainReturns(run_id) ==
    /\ job.pc = "chain"
    /\ job' = [job EXCEPT !.pc = "set_run_id", !.chain = "returned", !.out_run_id = run_id]
    /\ UNCHANGED <<storeVars, aroundJob>>

\* answer_question(...) raises
JobChainRaises ==
    /\ job.pc = "chain"
    /\ job' = [job EXCEPT !.pc = "except", !.chain = "raised"]
    /\ UNCHANGED <<storeVars, aroundJob>>

\* set_status(answer_id, "RUNNING", run_id=out.get("run_id"))
JobSetRunId ==
    /\ job.pc = "set_run_id"
    /\ SetStatusWrite(job.aid, "RUNNING", Null, job.out_run_id)
    /\ job' = [job EXCEPT !.pc = IF Raises(job.aid) THEN "except" ELSE "set_result",
                          !.calls = Append(@, "set_status:RUNNING")]
    /\ UNCHANGED aroundJob

\* set_result(answer_id, out); JOBS_SUCCEEDED.inc()
JobSetResult ==
    /\ job.pc = "set_result"
    /\ \E d \in Payloads : SetResultWrite(job.aid, d)
    /\ job' = [job EXCEPT !.pc = IF Raises(job.aid) THEN "except" ELSE "returned",
                          !.calls = Append(@, "set_result")]
    /\ UNCHANGED aroundJob

\* except Exception as e: set_error(answer_id, tb); JOBS_FAILED.inc(); raise
JobSetError ==
    /\ job.pc = "except"
    /\ SetErrorWrite(job.aid, Traceback)
    /\ job' = [job EXCEPT !.pc = "raised", !.calls = Append(@, "set_error")]
    /\ UNCHANGED aroundJob

InitJob ==
    /\ InitStore /\ IdleWalk /\ IdleExec /\ IdleIdemp /\ IdleReqs /\ IdleCache /\ IdleRebuild /\ IdleAux
    /\ \E aid \in Ids : job = JobQueued(aid)

\* the submitter creates the record before it enqueues the work item; the
\* record may have expired by the time a worker runs the job
NextJob ==
    \/ \E aid \in Ids, q \in Questions : job.pc = "queued" /\ init_answer(aid, q, NoMeta)
    \/ \E aid \in Ids : Expire(aid)
    \/ Tick
    \/ JobStart
    \/ \E run_id \in RunIds : JobChainReturns(run_id)
    \/ JobChainRaises
    \/ JobSetRunId
    \/ JobSetResult
    \/ JobSetError

SpecJob == InitJob /\ [][NextJob]_vars

(***************************************************************************)
(* agents/pipeline/qa_pipeline.py: the result cache around answer_question.*)
(* A key is assistx:qa:<CACHE_VERSION>:<schema_fp>:<sha1 of the normalized *)
(* question>; the digest is collision-free here and stands for the text it *)
(* was taken of.  An entry holds the JSON text of the answer.              *)
(***************************************************************************)
CACHE_VERSION == "v1"
Fingerprints == {"fp1", "fp2"}
CacheQuestions == {<<"A", "b">>, <<" ", "a", "B", " ">>, <<"c">>}

\* a faulty key derivation that hashes the stripped question as it is cased
CacheKeyNoLower(question, schema_fp) == <<CACHE_VERSION, schema_fp, Strip(question)>>

\* _cache_key: question.strip().lower(), hashed, with the version and the
\* schema fingerprint
CacheKey(question, schema_fp) == <<CACHE_VERSION, schema_fp, Lower(Strip(question))>>

\* the Python values the analysis code may return as `computed`: a dict with
\* a string key, a dict with an int key, a list, a tuple, a set (the runs
\* draw from three of them)
PyVal(t, kt, k) == [t |-> t, kt |-> kt, k |-> k]
DictStrKey == PyVal("dict", "str", "1")
DictIntKey == PyVal("dict", "int", "1")
PyList == PyVal("list", "-", "-")
PyTuple == PyVal("tuple", "-", "-")
PySet == PyVal("set", "-", "-")
PyNone == PyVal("none", "-", "-")
ComputedValues == {DictStrKey, DictIntKey, PySet}

\* json.dumps raises TypeError on a set
JsonSerializable(v) == v.t # "set"

\* json.dumps of a value: dict keys are written as strings, lists and tuples
\* as arrays
JsonDumpsValue(v) ==
    CASE v.t = "dict" -> [j |-> "object", k |-> v.k]
      [] v.t \in {"list", "tuple"} -> [j |-> "array", k |-> "-"]
      [] OTHER -> [j |-> "null", k |-> "-"]

\* json.loads of a value: an object is a dict with string keys, an array a list
JsonLoadsValue(j) ==
    CASE j.j = "object" -> PyVal("dict", "str", j.k)
      [] j.j = "array" -> PyList
      [] OTHER -> PyNone

\* json.dumps(out) / json.loads(text) of the answer dict: strings, booleans
\* and None come back as they were
JsonDumps(out) == [out EXCEPT !.computed = JsonDumpsValue(@)]
JsonLoads(text) == [text EXCEPT !.computed = JsonLoadsValue(@)]

\* the values that json.loads(json.dumps(v)) gives back unchanged
JsonNative(v) == v.t = "list" \/ (v.t = "dict" /\ v.kt = "str") \/ v.t = "none"

NoOut == [answer |-> Null, computed |-> PyNone, cached |-> FALSE, run_id |-> Null]

\* answer_question(neo, question, ...) is called; fetch_schema gives a schema
\* of fingerprint fp
QaRun(question, fp) ==
    [pc |-> "get", question |-> question, fp |-> fp, ckey |-> CacheKey(question, fp),
     read |-> "none", write |-> "none", chain |-> "none",
     failed_at |-> "none", log |-> "none",
     expect |-> {}, stored |-> NoOut, out |-> NoOut, result |-> NoOut]

\* the questions of the live entries stored for the same normal form of the
\* question and the same fingerprint
EntriesFor(question, fp) ==
    {cache[k].question : k \in {x \in DOMAIN cache :
        cache[x].fp = fp /\ Lower(Strip(cache[x].question)) = Lower(Strip(question))}}

\* a faulty hit that returns the decoded entry as it is
OnHitNoFlag(run, text) ==
    [run EXCEPT !.read = "hit", !.pc = "returned", !.result = JsonLoads(text)]

\* a faulty hit that marks the entry and goes on to the chain
OnHitRecomputes(run, text) ==
    [run EXCEPT !.read = "hit", !.pc = "compute",
                !.result = [JsonLoads(text) EXCEPT !.cached = TRUE]]

\* if cached: obj = json.loads(cached.decode("utf-8")); obj["cached"] = True;
\* return obj
OnHit(run, text) ==
    [run EXCEPT !.read = "hit", !.pc = "returned",
                !.result = [JsonLoads(text) EXCEPT !.cached = TRUE]]

\* _rds.get(ckey) returned None
OnMiss(run) == [run EXCEPT !.read = "miss", !.pc = "compute"]

\* a faulty read that lets the backend error out of answer_question
OnReadErrorPropagates(run) == [run EXCEPT !.read = "error", !.pc = "raised"]

\* except Exception: cached = None
OnReadError(run) == [run EXCEPT !.read = "error", !.pc = "compute"]

\* the variables answer_question leaves alone
aroundCache == <<storeVars, walk, ex, idempVars, reqs, job, rebuild, auxVars>>

QaCall(question, fp) ==
    /\ qa.pc \in {"idle", "returned", "raised"}
    /\ qa' = QaRun(question, fp)
    /\ UNCHANGED <<cache, aroundCache>>

\* cached = _rds.get(ckey)
QaGet ==
    /\ qa.pc = "get"
    /\ LET run == IF qa.ckey \in DOMAIN cache
                  THEN [OnHit(qa, cache[qa.ckey].text) EXCEPT !.stored = cache[qa.ckey].stored]
                  ELSE OnMiss(qa)
       IN  qa' = [run EXCEPT !.expect = EntriesFor(qa.question, qa.fp)]
    /\ UNCHANGED <<cache, aroundCache>>

\* _rds.get(ckey) raises (connection error, timeout)
QaGetFails ==
    /\ qa.pc = "get"
    /\ qa' = OnReadError(qa)
    /\ UNCHANGED <<cache, aroundCache>>

\* create_run, execute_with_repairs, the analysis and the final chat return;
\* out = {"answer": ..., "computed": ..., "cached": False, "run_id": run_id}
QaChain(answer, computed, run_id) ==
    /\ qa.pc = "compute"
    /\ qa' = [qa EXCEPT !.pc = "put", !.chain = "returned",
                        !.out = [answer |-> answer, computed |-> computed,
                                 cached |-> FALSE, run_id |-> run_id]]
    /\ UNCHANGED <<cache, aroundCache>>

\* the steps of the chain between the cache read and the cache write:
\* neo.create_run, execute_with_repairs, generate_analysis_code and
\* run_user_code, chat
ChainStages == {"create_run", "execute", "analysis", "compose"}

\* a step of the chain raises
QaChainRaises(stage) ==
    /\ qa.pc = "compute"
    /\ qa' = [qa EXCEPT !.pc = "raised", !.chain = "raised", !.failed_at = stage]
    /\ UNCHANGED <<cache, aroundCache>>

\* try: _rds.setex(ckey, QA_CACHE_TTL_S, json.dumps(out).encode("utf-8"));
\* a TypeError of json.dumps is swallowed with the rest; return out
QaPut ==
    /\ qa.pc = "put"
    /\ IF JsonSerializable(qa.out.computed)
       THEN /\ cache' = [k \in (DOMAIN cache) \cup {qa.ckey} |->
                           IF k = qa.ckey
                           THEN [text |-> JsonDumps(qa.out), stored |-> qa.out,
                                 question |-> qa.question, fp |-> qa.fp]
                           ELSE cache[k]]
            /\ qa' = [qa EXCEPT !.pc = "finish", !.write = "ok"]
       ELSE /\ cache' = cache
            /\ qa' = [qa EXCEPT !.pc = "finish", !.write = "error"]
    /\ UNCHANGED aroundCache

\* _rds.setex raises (connection error, timeout): except Exception: pass
QaPutFails ==
    /\ qa.pc = "put"
    /\ qa' = [qa EXCEPT !.pc = "finish", !.write = "error"]
    /\ UNCHANGED <<cache, aroundCache>>

\* if run_id: neo.log_artifact(...); neo.complete_run(run_id, status="DONE");
\* return out
QaFinish ==
    /\ qa.pc = "finish"
    /\ qa' = [qa EXCEPT !.pc = "returned", !.result = qa.out,
                        !.log = IF qa.out.run_id # Null THEN "returned" ELSE "none"]
    /\ UNCHANGED <<cache, aroundCache>>

\* neo.log_artifact or neo.complete_run raises (the database is unreachable)
QaFinishRaises ==
    /\ qa.pc = "finish"
    /\ qa.out.run_id # Null
    /\ qa' = [qa EXCEPT !.pc = "raised", !.log = "raised"]
    /\ UNCHANGED <<cache, aroundCache>>

\* an entry reaches its TTL (QA_CACHE_TTL_S after it was written)
CacheExpire(k) ==
    /\ k \in DOMAIN cache
    /\ cache' = [x \in (DOMAIN cache) \ {k} |-> cache[x]]
    /\ UNCHANGED <<qa, aroundCache>>

Answers == {"a1"}
\* run_id = neo.create_run(...), or None without log_to_neo
QaRunIds == {"run1", Null}

InitCache ==
    InitStore /\ IdleWalk /\ IdleExec /\ IdleIdemp /\ IdleReqs /\ IdleJob /\ IdleCache /\ IdleRebuild /\ IdleAux

NextCache ==
    \/ \E question \in CacheQuestions, fp \in Fingerprints : QaCall(question, fp)
    \/ QaGet
    \/ QaGetFails
    \/ \E answer \in Answers, computed \in ComputedValues, run_id \in QaRunIds :
          QaChain(answer, computed, run_id)
    \/ \E stage \in ChainStages : QaChainRaises(stage)
    \/ QaPut
    \/ QaPutFails
    \/ QaFinish
    \/ QaFinishRaises
    \/ \E k \in DOMAIN cache : CacheExpire(k)

SpecCache == InitCache /\ [][NextCache]_vars

(***************************************************************************)
(* answers_store.rebuild_index: delete the index keys in one transaction,  *)
(* then for every key that scan_iter yields read the record (_r.get) and   *)
(* upsert it (_index_upsert): two Redis round trips per record.  SCAN      *)
(* yields every key that exists during the whole scan; a key created       *)
(* meanwhile may or may not be yielded.                                    *)
(***************************************************************************)
\* the number of times rebuild_index is run
MaxRuns == 2

\* a faulty wipe that leaves the index as it is
KeptIndex(z) == z

\* pipe.delete(<index key>)
WipedIndex(z) == EmptyZ

RebuildIdle ==
    [pc |-> "idle", todo |-> {}, visited |-> {}, obj |-> <<>>, total |-> 0, runs |-> 0,
     before |-> EmptyZ, last |-> <<>>]

\* the variables rebuild_index leaves alone
aroundRebuild ==
    <<answers, now, finalized, raised, events, walk, ex, idempVars, reqs, job, cacheVars,
      auxVars>>

\* the wipe: pipe.delete(INDEX_ALL); pipe.delete(<each status index>); execute
RebuildWipe ==
    /\ rebuild.pc \in {"idle", "done"}
    /\ rebuild.runs < MaxRuns
    /\ index_all' = WipedIndex(index_all)
    /\ index_status' = [st \in ALL_STATUSES |-> WipedIndex(index_status[st])]
    /\ rebuild' = [pc |-> "scan", todo |-> DOMAIN answers, visited |-> {}, obj |-> <<>>,
                   total |-> 0, runs |-> rebuild.runs + 1, before |-> answers,
                   last |-> IF rebuild.pc = "done" THEN <<index_all, index_status>>
                            ELSE rebuild.last]
    /\ UNCHANGED aroundRebuild

\* scan_iter yields the key of aid; obj = json.loads(_r.get(k) or "{}"); a key
\* that is gone is skipped (if not obj: continue)
RebuildRead(aid) ==
    /\ rebuild.pc = "scan"
    /\ aid \in (rebuild.todo \cup DOMAIN answers) \ rebuild.visited
    /\ rebuild' = [rebuild EXCEPT !.visited = @ \cup {aid},
                                  !.obj = IF Live(aid) THEN <<answers[aid]>> ELSE <<>>,
                                  !.pc = IF Live(aid) THEN "upsert" ELSE "scan"]
    /\ UNCHANGED <<index_all, index_status, aroundRebuild>>

\* _index_upsert(obj); total += 1
RebuildUpsert ==
    /\ rebuild.pc = "upsert"
    /\ index_all' = IndexUpsertAll(index_all, rebuild.obj[1])
    /\ index_status' = IndexUpsertStatus(index_status, rebuild.obj[1])
    /\ rebuild' = [rebuild EXCEPT !.pc = "scan", !.obj = <<>>, !.total = @ + 1]
    /\ UNCHANGED aroundRebuild

\* scan_iter is exhausted: return {"reindexed": total}
RebuildFinish ==
    /\ rebuild.pc = "scan"
    /\ rebuild.todo \subseteq rebuild.visited
    /\ rebuild' = [rebuild EXCEPT !.pc = "done"]
    /\ UNCHANGED <<index_all, index_status, aroundRebuild>>

InitRebuild ==
    /\ InitStore /\ IdleWalk /\ IdleExec /\ IdleIdemp /\ IdleReqs /\ IdleJob /\ IdleCache
    /\ rebuild = RebuildIdle /\ IdleAux

\* rebuild_index run, once or twice, after the writes: nothing is written and
\* no record expires while it runs or after it
NextRebuild ==
    \/ \E aid \in Ids, q \in Questions : rebuild.pc = "idle" /\ init_answer(aid, q, NoMeta)
    \/ \E aid \in Ids, st \in {"RUNNING", OtherStatus} :
          rebuild.pc = "idle" /\ set_status(aid, st, Null, Null)
    \/ \E aid \in Ids, d \in Payloads : rebuild.pc = "idle" /\ set_result(aid, d)
    \/ \E aid \in Ids : rebuild.pc = "idle" /\ Expire(aid)
    \/ rebuild.pc = "idle" /\ Tick
    \/ RebuildWipe
    \/ \E aid \in Ids : RebuildRead(aid)
    \/ RebuildUpsert
    \/ RebuildFinish

SpecRebuild == InitRebuild /\ [][NextRebuild]_vars

\* one run of rebuild_index interleaved with the mutations of normal traffic
\* on answers created before it
NextRebuildLive ==
    \/ \E aid \in Ids, q \in Questions : rebuild.pc = "idle" /\ init_answer(aid, q, NoMeta)
    \/ \E aid \in Ids : set_status(aid, "RUNNING", Null, Null)
    \/ \E aid \in Ids, d \in Payloads : set_result(aid, d)
    \/ rebuild.pc = "idle" /\ Tick
    \/ rebuild.runs = 0 /\ RebuildWipe
    \/ \E aid \in Ids : RebuildRead(aid)
    \/ RebuildUpsert
    \/ RebuildFinish

SpecRebuildLive == InitRebuild /\ [][NextRebuildLive]_vars

(***************************************************************************)
(* The analysis runners: run_user_code (agents/analyst.py) runs the code   *)
(* in the calling process, sandbox_runner.main in a process of its own.    *)
(* Analysis code is reduced to the one statement of interest, the place    *)
(* where it stands (module level, or the body of main) and the path it     *)
(* names.                                                                  *)
(***************************************************************************)
Runners == {"run_user_code", "sandbox_runner"}

\* the names of g["__builtins__"] in each runner
SAFE_BUILTINS ==
    {"len", "range", "min", "max", "sum", "sorted", "enumerate", "zip", "abs", "round",
     "any", "all", "list", "dict", "set", "tuple"}
RunnerBuiltins(runner) ==
    IF runner = "run_user_code" THEN {"len", "range", "min", "max", "sum", "sorted"}
    ELSE SAFE_BUILTINS \cup {"__import__", "open"}

\* the locals handed to exec: {"rows": rows, "pd": pd}
RunnerLocals == {"rows", "pd"}
ALLOW_IMPORTS == {"pandas", "math", "statistics"}

\* exec(code, g, l): module-level code resolves a name in l, then in g, then
\* in the builtins; the body of main resolves it in its own locals (rows),
\* then in g (which holds __builtins__ only), then in the builtins
Visible(runner, where, name) ==
    IF where = "module" THEN name \in RunnerLocals \cup RunnerBuiltins(runner)
    ELSE name \in {"rows"} \cup RunnerBuiltins(runner)

Paths == {"/etc/passwd", "rows.csv", "/no/such/file"}
ExistingPaths == {"/etc/passwd", "rows.csv"}
NoPath == "none"

\* pandas opens the path with the interpreter's own open
PandasOpen(path) == IF path \in ExistingPaths THEN "handle" ELSE "FileNotFoundError"

\* __import__ of the runner: absent in run_user_code, safe_import in sandbox_runner
Import(runner, where, module) ==
    IF ~Visible(runner, where, "__import__") THEN "ImportError"
    ELSE IF module \notin ALLOW_IMPORTS THEN "ImportError: Import not allowed"
    ELSE "imported"

\* what a statement that tries to open a file comes to
Attempt(runner, where, stmt, path) ==
    CASE stmt = "open" ->
            IF Visible(runner, where, "open") THEN "PermissionError" ELSE "NameError"
      [] stmt = "pd.read_csv" ->
            IF Visible(runner, where, "pd") THEN PandasOpen(path) ELSE "NameError"
      [] stmt = "import pandas" ->
            IF Import(runner, where, "pandas") = "imported" THEN PandasOpen(path)
            ELSE Import(runner, where, "pandas")
      [] stmt = "import os" ->
            IF Import(runner, where, "os") = "imported" THEN "handle"
            ELSE Import(runner, where, "os")

OpenStmts == {"open", "pd.read_csv", "import pandas", "import os"}
OtherStmts == {"compute", "raise", "spin", "alloc"}
Codes ==
    [where : {"module", "main"}, stmt : OpenStmts, path : Paths]
      \cup [where : {"main"}, stmt : OtherStmts, path : {NoPath}]

\* TIMEOUT_S = float(os.getenv("ANALYSIS_TIMEOUT_S", "8"))
TIMEOUT_S == 8
\* limit_resources: cpu = int(TIMEOUT_S) + 1, RLIMIT_CPU soft = hard = cpu
CpuLimit == TIMEOUT_S + 1
\* the CPU seconds followed of a run that does not end
MaxCpu == 10

aroundSandbox ==
    <<storeVars, walk, ex, idempVars, reqs, job, cacheVars, rebuild, snap, mut>>

\* the runner is called; limited tells whether setrlimit(RLIMIT_AS) took
\* effect (sandbox_runner swallows its failure, run_user_code sets no limit)
SandboxCall(runner, code, limited) ==
    /\ sandbox.pc = "idle"
    /\ (runner = "run_user_code") => ~limited
    /\ sandbox' = [pc |-> "exec", runner |-> runner, code |-> code, limited |-> limited,
                   outcome |-> "none", handle |-> FALSE, cpu |-> 0]
    /\ UNCHANGED aroundSandbox

\* exec(code, g, l): the module-level statements run, main is defined
SandboxExec ==
    /\ sandbox.pc = "exec"
    /\ LET c == sandbox.code
           o == IF c.where = "module"
                THEN Attempt(sandbox.runner, "module", c.stmt, c.path) ELSE "none"
       IN  sandbox' = IF o \in {"none", "handle"}
                      THEN [sandbox EXCEPT !.pc = "main", !.handle = (o = "handle")]
                      ELSE [sandbox EXCEPT !.pc = "raised", !.outcome = o]
    /\ UNCHANGED aroundSandbox

\* result = l["main"](rows), for a body that ends
SandboxMain ==
    /\ sandbox.pc = "main" /\ sandbox.code.stmt # "spin"
    /\ LET c == sandbox.code
           o == CASE c.stmt \in OpenStmts /\ c.where = "main" ->
                         Attempt(sandbox.runner, "main", c.stmt, c.path)
                  [] c.stmt = "raise" -> "Exception"
                  [] c.stmt = "alloc" -> IF sandbox.limited THEN "MemoryError" ELSE "none"
                  [] OTHER -> "none"
       IN  sandbox' = IF o \in {"none", "handle"}
                      THEN [sandbox EXCEPT !.pc = "returned", !.outcome = "result",
                                           !.handle = (@ \/ o = "handle")]
                      ELSE [sandbox EXCEPT !.pc = "raised", !.outcome = o]
    /\ UNCHANGED aroundSandbox

\* a body that does not end uses one more second of CPU; in sandbox_runner
\* the kernel ends the process with SIGXCPU at the limit, run_user_code has
\* no limit and no timeout
SandboxBurn ==
    /\ sandbox.pc = "main" /\ sandbox.code.stmt = "spin"
    /\ sandbox.cpu < MaxCpu
    /\ sandbox' = IF sandbox.runner = "sandbox_runner" /\ sandbox.cpu + 1 >= CpuLimit
                  THEN [sandbox EXCEPT !.cpu = @ + 1, !.pc = "killed", !.outcome = "SIGXCPU"]
                  ELSE [sandbox EXCEPT !.cpu = @ + 1]
    /\ UNCHANGED aroundSandbox

SandboxEnded == sandbox.pc \in {"returned", "raised", "killed"}

InitSandbox ==
    /\ InitStore /\ IdleWalk /\ IdleExec /\ IdleIdemp /\ IdleReqs /\ IdleJob /\ IdleCache
    /\ IdleRebuild /\ IdleAux

NextSandbox ==
    \/ \E runner \in Runners, code \in Codes, limited \in BOOLEAN :
           SandboxCall(runner, code, limited)
    \/ SandboxExec
    \/ SandboxMain
    \/ SandboxBurn

SpecSandbox == InitSandbox /\ [][NextSandbox]_vars

(***************************************************************************)
(* The schema snapshot (neo_schema.fetch_schema) and its fingerprint       *)
(* (qa_pipeline._schema_fp).  A shape is what the database holds: its      *)
(* labels with their property keys and its relationship types with their   *)
(* endpoint labels.  A discovery lists the labels and the relationship     *)
(* types in the order db.labels() and db.relationshipTypes() yield them.   *)
(***************************************************************************)
Labels == {"Person", "Movie"}
PropNames == {"id"}
RelTypes == {"ACTED_IN", "RATED"}
Endpoints == {[from |-> {}, to |-> {}], [from |-> {"Person"}, to |-> {"Movie"}]}

NodeShapes == UNION {[L -> SUBSET PropNames] : L \in SUBSET Labels}
RelShapes == UNION {[T -> Endpoints] : T \in SUBSET RelTypes}
Shapes == [nodes : NodeShapes, rels : RelShapes]

\* the orders in which a procedure may yield the elements of S
Orders(S) ==
    {o \in [1..Cardinality(S) -> S] : \A i, j \in 1..Cardinality(S) : o[i] = o[j] => i = j}

\* fetch_schema: one entry per label and per relationship type, appended in
\* the order of discovery; props, from and to are sorted(set), written here
\* as the set they are the one sorted list of
fetch_schema(shape, labels, rtypes) ==
    [nodes |-> [i \in 1..Len(labels) |->
                   [label |-> labels[i], props |-> shape.nodes[labels[i]]]],
     rels  |-> [i \in 1..Len(rtypes) |->
                   [type |-> rtypes[i], from |-> shape.rels[rtypes[i]].from,
                    to |-> shape.rels[rtypes[i]].to]]]

\* json.dumps(schema, sort_keys=True): the keys of every dict in sorted order
\* (a record), every list in its own order (a sequence)
JsonDumpsSorted(schema) == schema

\* hashlib.sha1(text).hexdigest()[:12], taken as free of collisions
Sha1Prefix(text) == [sha1 |-> text]

_schema_fp(schema) == Sha1Prefix(JsonDumpsSorted(schema))

NoSnapshot == [shape |-> "none", fp |-> "none"]

aroundSnap ==
    <<storeVars, walk, ex, idempVars, reqs, job, cacheVars, rebuild, sandbox, mut>>

\* schema = fetch_schema(neo); fp = _schema_fp(schema), on a database of the
\* given shape; the call before it is remembered
Discover(shape, labels, rtypes) ==
    /\ snap.pc \in {"idle", "first"}
    /\ LET schema == fetch_schema(shape, labels, rtypes)
       IN  snap' = [pc |-> IF snap.pc = "idle" THEN "first" ELSE "second",
                    shape |-> shape, schema |-> schema, fp |-> _schema_fp(schema),
                    prev |-> IF snap.pc = "idle" THEN NoSnapshot
                             ELSE [shape |-> snap.shape, fp |-> snap.fp]]
    /\ UNCHANGED aroundSnap

InitSnap ==
    /\ InitStore /\ IdleWalk /\ IdleExec /\ IdleIdemp /\ IdleReqs /\ IdleJob /\ IdleCache
    /\ IdleRebuild /\ IdleAux

NextSnap ==
    \E shape \in Shapes :
        \E labels \in Orders(DOMAIN shape.nodes), rtypes \in Orders(DOMAIN shape.rels) :
            Discover(shape, labels, rtypes)

SpecSnap == InitSnap /\ [][NextSnap]_vars

(***************************************************************************)
(* The mutations of answers_store step by step, as Redis sees them when    *)
(* several callers (an API handler, a worker) mutate the same answer: the  *)
(* read of the record, the write of the record, the index batch (one       *)
(* MULTI/EXEC) and the publish are four round trips and other callers'     *)
(* round trips come in between.                                            *)
(***************************************************************************)
Callers == {"submitter", "worker"}

\* the calls that race: the worker's set_status(id, "RUNNING"), set_result and
\* set_error, the submitter's set_status(id, "QUEUED", job_id=job.get_id())
Mutations ==
    {[op |-> "set_status", status |-> "RUNNING", job_id |-> Null, arg |-> Null],
     [op |-> "set_status", status |-> "QUEUED", job_id |-> "j1", arg |-> Null],
     [op |-> "set_result", status |-> "DONE", job_id |-> Null, arg |-> "d1"],
     [op |-> "set_error", status |-> "FAILED", job_id |-> Null, arg |-> "e1"]}

\* the record a mutation makes of the record it has read
Updated(obj, call) ==
    CASE call.op = "set_status" -> StatusUpdate(obj, call.status, call.job_id, Null)
      [] call.op = "set_result" -> ResultUpdate(obj, call.arg)
      [] call.op = "set_error"  -> ErrorUpdate(obj, call.arg)

\* the calls each caller makes
CallsOf(c) ==
    IF c = "submitter" THEN {call \in Mutations : call.status = "QUEUED"}
    ELSE {call \in Mutations : call.status # "QUEUED"}

\* the calls followed per caller
MaxMutations == 2

InFlight(c) == c \in DOMAIN mut /\ mut[c].pc # "ended"
Calls(c) == IF c \in DOMAIN mut THEN mut[c].calls ELSE 0

aroundMut ==
    <<walk, ex, idempVars, reqs, job, cacheVars, rebuild, sandbox, snap>>

\* obj = get_answer(answer_id); if not obj: return; the fields are set in the
\* caller's copy
MutRead(c, call, aid) ==
    /\ ~InFlight(c)
    /\ call \in CallsOf(c)
    /\ Calls(c) < MaxMutations
    /\ Live(aid)
    /\ mut' = [x \in (DOMAIN mut) \cup {c} |->
                 IF x = c THEN [pc |-> "write", call |-> call, calls |-> Calls(c) + 1,
                                obj |-> Updated(answers[aid], call)]
                 ELSE mut[x]]
    /\ UNCHANGED <<storeVars, aroundMut>>

\* _r.setex(_key(answer_id), ANSWERS_TTL_S, json.dumps(obj))
MutWrite(c) ==
    /\ c \in DOMAIN mut /\ mut[c].pc = "write"
    /\ answers' = SetEx(mut[c].obj)
    /\ finalized' = IF mut[c].call.op \in {"set_result", "set_error"}
                    THEN [finalized EXCEPT ![mut[c].obj.id] = @ \cup {mut[c].call.status}]
                    ELSE finalized
    /\ mut' = [mut EXCEPT ![c].pc = "index"]
    /\ UNCHANGED <<index_all, index_status, now, raised, events, aroundMut>>

\* _index_upsert(obj): one transaction
MutIndex(c) ==
    /\ c \in DOMAIN mut /\ mut[c].pc = "index"
    /\ index_all' = IndexUpsertAll(index_all, mut[c].obj)
    /\ index_status' = IndexUpsertStatus(index_status, mut[c].obj)
    /\ mut' = [mut EXCEPT ![c].pc = "publish"]
    /\ UNCHANGED <<answers, now, finalized, raised, events, aroundMut>>

\* _publish(obj, ev_type="update"): the call ends, by raising or returning
MutPublish(c) ==
    /\ c \in DOMAIN mut /\ mut[c].pc = "publish"
    /\ PublishCall(mut[c].obj, "update")
    /\ mut' = [mut EXCEPT ![c].pc = "ended"]
    /\ UNCHANGED <<answers, index_all, index_status, now, finalized, aroundMut>>

\* no mutation is between its read and its end
Quiescent == \A c \in DOMAIN mut : mut[c].pc = "ended"

InitRace ==
    /\ InitStore /\ IdleWalk /\ IdleExec /\ IdleIdemp /\ IdleReqs /\ IdleJob /\ IdleCache
    /\ IdleRebuild /\ IdleAux

\* the answers are created first; then the callers mutate them
NextRace ==
    \/ \E q \in Questions : mut = <<>> /\ ~Live(1) /\ init_answer(1, q, NoMeta)
    \/ \E c \in Callers, call \in Mutations : MutRead(c, call, 1)
    \/ \E c \in Callers : MutWrite(c)
    \/ \E c \in Callers : MutIndex(c)
    \/ \E c \in Callers : MutPublish(c)
    \/ Tick

SpecRace == InitRace /\ [][NextRace]_vars

(***************************************************************************)
(* list_answers_paginated on an index in which as many stale entries lie   *)
(* above the live answers as one call can read.                            *)
(***************************************************************************)
\* the index entries one call reads at most: MaxLoops windows
ScanReach == MaxLoops * Window(MaxLimit)

\* the live answers 1 and 2, written at times 0 and 1 and left QUEUED or
\* DONE, below n stale entries of distinct later scores
InitDeep ==
    /\ \E n \in (ScanReach - 1)..ScanReach, live \in (SUBSET Ids) \ {{}},
          st \in [Ids -> {"QUEUED", "DONE"}] :
          /\ answers = [aid \in live |->
                          [id |-> aid, question |-> <<"c">>, status |-> st[aid],
                           created_at |-> aid - 1, updated_at |-> aid - 1,
                           job_id |-> Null, run_id |-> Null,
                           data |-> IF st[aid] = "DONE" THEN "d1" ELSE Null,
                           error |-> Null, meta |-> EmptyMeta]]
          /\ index_all = [m \in live \cup StaleIds(n) |->
                            IF m \in live THEN m - 1 ELSE MaxTime + m]
          /\ index_status =
                [s \in ALL_STATUSES |->
                    [m \in {a \in live : st[a] = s}
                           \cup (IF s = "QUEUED" THEN StaleIds(n) ELSE {}) |->
                        IF m \in live THEN m - 1 ELSE MaxTime + m]]
    /\ now = MaxTime
    /\ finalized = [aid \in Ids |-> {}]
    /\ raised = FALSE
    /\ events = [scoped |-> [aid \in Ids |-> <<>>], global |-> <<>>]
    /\ walk = [phase |-> "idle"]
    /\ IdleExec /\ IdleIdemp /\ IdleReqs /\ IdleJob /\ IdleCache /\ IdleRebuild /\ IdleAux

NextDeep ==
    \/ \E st \in {Null, "QUEUED", "DONE"}, limit \in 1..MaxLimit : ListCall(st, <<>>, limit)
    \/ ListRepeat

SpecDeep == InitDeep /\ [][NextDeep]_vars

(***************************************************************************)
(* A walk through list_answers_paginated while a new answer is created.    *)
(***************************************************************************)
\* the id new_answer_id gives the answer created during the walk
InsertedId == 3

\* the walk has had its first page and is not at its end
MidWalk == walk.phase = "walking" /\ walk.cursor # NoCursor

InitInsert == InitWalk

\* answers 1 and 2 are created before the walk, answer 3 between two pages
NextInsert ==
    \/ \E aid \in Ids, q \in Questions : walk.phase = "idle" /\ ~Live(aid) /\ init_answer(aid, q, NoMeta)
    \/ \E q \in Questions : MidWalk /\ ~Live(InsertedId) /\ init_answer(InsertedId, q, NoMeta)
    \/ Tick
    \/ \E st \in {Null, "QUEUED"}, limit \in 1..MaxLimit : StartWalk(st, <<>>, limit)
    \/ ListPage

SpecInsert == InitInsert /\ [][NextInsert]_vars

(***************************************************************************)
(* The scan of list_answers_paginated entry by entry, among the mutations  *)
(* of other callers: for an index entry the scan reads the record          *)
(* (get_answer) and, when there is none, removes the entry (_index_remove) *)
(* in a later round trip.                                                  *)
(***************************************************************************)
ScanIdle == [phase |-> "scanning", pending |-> 0, removed |-> {}]

aroundScan ==
    <<answers, now, finalized, raised, events, ex, idempVars, reqs, job, cacheVars,
      rebuild, auxVars>>

\* obj = get_answer(aid) for an entry of the batch: None
ScanGet(aid) ==
    /\ walk.phase = "scanning" /\ walk.pending = 0
    /\ aid \in DOMAIN index_all
    /\ ~Live(aid)
    /\ walk' = [walk EXCEPT !.pending = aid]
    /\ UNCHANGED <<index_all, index_status, aroundScan>>

\* if not obj: _index_remove(aid); continue
ScanRemove ==
    /\ walk.phase = "scanning" /\ walk.pending # 0
    /\ index_all' = IndexRemoveAll(index_all, walk.pending)
    /\ index_status' = IndexRemoveStatus(index_status, walk.pending)
    /\ walk' = [walk EXCEPT !.pending = 0, !.removed = @ \cup {walk.pending}]
    /\ UNCHANGED aroundScan

InitScanRace ==
    /\ InitStore /\ walk = ScanIdle /\ IdleExec /\ IdleIdemp /\ IdleReqs /\ IdleJob
    /\ IdleCache /\ IdleRebuild /\ IdleAux

\* answer 1 is created once; then it is mutated, expires and is scanned
NextScanRace ==
    \/ \E q \in Questions : mut = <<>> /\ index_all = EmptyZ /\ init_answer(1, q, NoMeta)
    \/ \E c \in Callers, call \in Mutations : MutRead(c, call, 1)
    \/ \E c \in Callers : MutWrite(c)
    \/ \E c \in Callers : MutIndex(c)
    \/ \E c \in Callers : MutPublish(c)
    \/ Expire(1)
    \/ \E aid \in Ids : ScanGet(aid)
    \/ ScanRemove

SpecScanRace == InitScanRace /\ [][NextScanRace]_vars

(***************************************************************************)
(* The store on one answer created with every kind of user_meta; ids are   *)
(* fresh (new_answer_id), so init_answer is called for an id with no live  *)
(* record.                                                                 *)
(***************************************************************************)
MetaId == 1
MetaQuestions == {<<"A", "b">>, <<"c">>}

InitMeta == InitStore /\ IdleWalk /\ IdleExec /\ IdleIdemp /\ IdleReqs /\ IdleJob /\ IdleCache /\ IdleRebuild /\ IdleAux

NextMeta ==
    \/ \E q \in MetaQuestions, um \in UserMetas : ~Live(MetaId) /\ init_answer(MetaId, q, um)
    \/ \E st \in AnyStatus, j \in JobArgs, r \in RunArgs : set_status(MetaId, st, j, r)
    \/ \E d \in Payloads : set_result(MetaId, d)
    \/ \E e \in ErrorTexts : set_error(MetaId, e)
    \/ Expire(MetaId)
    \/ Tick

SpecMeta == InitMeta /\ [][NextMeta]_vars

(***************************************************************************)
(* Claims about the store.                                                 *)
(***************************************************************************)
\* C1: once set_result or set_error has been applied to an answer, every
\* later set_status call on that id is a no-op: the stored status stays DONE
\* or FAILED.
C1_SetStatusAfterTerminalIsNoOp ==
    [][\A aid \in {a \in Ids : finalized[a] # {}} :
          (\E st \in AnyStatus, j \in JobArgs, r \in RunArgs : set_status(aid, st, j, r))
          => /\ answers'[aid].status = answers[aid].status
             /\ answers'[aid].status \in TerminalStatuses]_vars

\* C2: an answer reaches at most one terminal state: a record that set_result
\* made DONE is never made FAILED afterwards, and one that set_error made
\* FAILED is never made DONE.
C2_AtMostOneTerminalState == \A aid \in Ids : Cardinality(finalized[aid]) <= 1

\* the per-status indexes that hold aid
StatusIndexesOf(aid) == {st \in ALL_STATUSES : aid \in DOMAIN index_status[st]}

\* C3 as stated: after any sequence of completed mutations, with any status
\* argument, every live answer is in the global index and in exactly one
\* per-status index, the one of the status stored in its record.
C3_InExactlyOneStatusIndex ==
    \A aid \in DOMAIN answers :
        /\ aid \in DOMAIN index_all
        /\ StatusIndexesOf(aid) = {answers[aid].status}

\* C3 amended: every live answer is in the global index; if its stored status
\* is one of ALL_STATUSES it is in that status's index and in no other, and
\* if its stored status is any other value it is in no per-status index.
C3_StatusIndexMatchesRecord ==
    \A aid \in DOMAIN answers :
        /\ aid \in DOMAIN index_all
        /\ StatusIndexesOf(aid) = {answers[aid].status} \cap ALL_STATUSES

\* a live answer moved to DONE by set_result beside a live answer whose status
\* was set to a value outside ALL_STATUSES
C3_Witness ==
    \E a \in DOMAIN answers, b \in DOMAIN answers :
        /\ a # b
        /\ finalized[a] = {"DONE"} /\ answers[a].status = "DONE"
        /\ answers[b].status = OtherStatus

\* C9: a live answer's data is non-null only if its status is DONE, and its
\* error is non-null only if its status is FAILED.
C9_DataOnlyOnDoneErrorOnlyOnFailed ==
    \A aid \in DOMAIN answers :
        /\ answers[aid].data # Null => answers[aid].status = "DONE"
        /\ answers[aid].error # Null => answers[aid].status = "FAILED"

(***************************************************************************)
(* Claims about the listing.                                               *)
(***************************************************************************)
\* the live answers that match the status and the substring filter of the walk
WalkMatches ==
    LET q_norm == Lower(Strip(walk.q)) IN
    {aid \in DOMAIN answers :
        /\ walk.status # Null => answers[aid].status = walk.status
        /\ q_norm # <<>> => Contains(Lower(answers[aid].question), q_norm)}

\* C4: a walk to the null cursor with no writes in between yields every live
\* answer matching the filter exactly once, in descending updated_at order,
\* answers of equal updated_at ordered by id.
C4_WalkYieldsEachMatchOnce ==
    walk.phase = "finished" =>
        LET seen == walk.seen
            pairs == {p \in (1..Len(seen)) \X (1..Len(seen)) : p[1] < p[2]}
            ties == {p \in pairs : answers[seen[p[1]]].updated_at = answers[seen[p[2]]].updated_at}
        IN  /\ {seen[i] : i \in 1..Len(seen)} = WalkMatches
            /\ Len(seen) = Cardinality(WalkMatches)
            /\ \A p \in pairs : answers[seen[p[1]]].updated_at >= answers[seen[p[2]]].updated_at
            /\ \/ \A p \in ties : seen[p[1]] > seen[p[2]]
               \/ \A p \in ties : seen[p[1]] < seen[p[2]]

(***************************************************************************)
(* Claims about the repair loop.                                           *)
(***************************************************************************)
ExEnded == ex.pc \in {"returned", "raised", "fell_through"}

\* C5: a run with max_attempts = n executes a query at most n times, and a
\* run in which no executed query succeeded raises instead of returning.
C5_AtMostNExecutionsAndRaisesWhenAllFail ==
    /\ ex.execs <= ex.max_attempts
    /\ (ExEnded /\ \A i \in 1..Len(ex.attempts) : ~ex.attempts[i].ok) => ex.result.kind = "raised"

\* C6: when the k-th executed query is the first to succeed, the run returns
\* at once with that query and its rows: k executions, k - 1 repairer calls,
\* and a returned log of k entries, the first k - 1 failed and the last ok.
C6_FirstSuccessReturnsAtOnce ==
    \A k \in 1..Len(ex.attempts) :
        ex.attempts[k].ok =>
            /\ ex.pc = "returned"
            /\ ex.result.kind = "tuple"
            /\ k = Len(ex.attempts) /\ k <= ex.max_attempts
            /\ ex.execs = k /\ ex.repairs = k - 1
            /\ ex.result.attempts = ex.attempts
            /\ ex.result.cypher = ex.attempts[k].cypher
            /\ ex.result.rows \in RowSets
            /\ \A i \in 1..(k - 1) : ~ex.attempts[i].ok

\* a run whose second execution is the first to succeed
C6_Witness ==
    /\ ex.pc = "returned"
    /\ Len(ex.attempts) = 2
    /\ ~ex.attempts[1].ok /\ ex.attempts[2].ok
    /\ ex.max_attempts = 3

(***************************************************************************)
(* Claims about idempotent submission.                                     *)
(***************************************************************************)
\* C7: two submissions with the same idempotency key, one after the other or
\* overlapping, return the same answer id while the first answer is live, and
\* at most one answer is created for the key.
C7_SameKeySameAnswer ==
    \A r1 \in DOMAIN reqs, r2 \in DOMAIN reqs :
        (r1 # r2 /\ reqs[r1].key # Null /\ reqs[r1].key = reqs[r2].key) =>
            /\ (reqs[r1].answer_id # 0 /\ reqs[r2].answer_id # 0)
                   => ~(Live(reqs[r1].answer_id) /\ Live(reqs[r2].answer_id))
            /\ (reqs[r1].response.kind = "answer_id" /\ reqs[r2].response.kind = "answer_id")
                   => reqs[r1].response.answer_id = reqs[r2].response.answer_id

\* C8: save is first-writer-wins: a live key keeps the answer id of its first
\* save, and a load returns that id.
C8_SaveIsFirstWriterWins ==
    /\ \A key \in DOMAIN idemp : idemp[key] = first_writer[key]
    /\ loaded.key # Null => loaded.got = loaded.first

(***************************************************************************)
(* Claims about the worker job.                                            *)
(***************************************************************************)
JobEnded == job.pc \in {"returned", "raised"}

TerminalCalls == {i \in 1..Len(job.calls) : job.calls[i] \in {"set_result", "set_error"}}

\* C10: a run of the job first moves the answer to RUNNING and then calls
\* exactly one of set_result (when the chain returned) and set_error (when
\* the chain raised); when the job ends a live answer is DONE or FAILED.
C10_ExactlyOneTerminalCall ==
    JobEnded =>
        /\ job.calls[1] = "set_status:RUNNING"
        /\ Cardinality(TerminalCalls) = 1
        /\ \A i \in TerminalCalls :
              /\ job.chain = "returned" => job.calls[i] = "set_result"
              /\ job.chain = "raised" => job.calls[i] = "set_error"
              /\ job.chain # "none"
        /\ Live(job.aid) => answers[job.aid].status \in TerminalStatuses

(***************************************************************************)
(* Claims about publishing.                                                *)
(***************************************************************************)
\* a step that is a mutation of the record of aid: init_answer, or one of
\* set_status / set_result / set_error on a live record
MutationOf(aid) ==
    \/ \E q \in Questions, um \in UserMetas : init_answer(aid, q, um)
    \/ /\ Live(aid)
       /\ \/ \E st \in AnyStatus, j \in JobArgs, r \in RunArgs : set_status(aid, st, j, r)
          \/ \E d \in Payloads : set_result(aid, d)
          \/ \E e \in ErrorTexts : set_error(aid, e)

\* C11: every mutation publishes one envelope {type, data: <answer>} on the
\* channel of the answer and the same envelope on the global channel, of type
\* "new" for init_answer and "update" for the other mutations.
C11_MutationPublishesOnBothChannels ==
    [][\A aid \in Ids :
          /\ (\E q \in Questions, um \in UserMetas : init_answer(aid, q, um))
                => events' = PublishBoth(events, answers'[aid], "new")
          /\ (MutationOf(aid) /\ ~(\E q \in Questions, um \in UserMetas : init_answer(aid, q, um)))
                => events' = PublishBoth(events, answers'[aid], "update")]_vars

\* C12: publishing is best-effort: when the publish step of a mutation fails,
\* the record write and the index update persist and no error reaches the
\* caller of the mutation.
C12_PublishFailureIsSwallowed ==
    [][\A aid \in Ids :
          (MutationOf(aid) /\ events' = events) =>
              /\ aid \in DOMAIN answers'
              /\ aid \in DOMAIN index_all'
              /\ index_all'[aid] = answers'[aid].updated_at
              /\ raised' = FALSE]_vars

\* C20: the events of one answer appear on its channel in the order of the
\* mutations of its record, so the last event on the channel of a live answer
\* carries the record that is stored for it.
C20_LastEventCarriesStoredState ==
    \A aid \in DOMAIN answers :
        LET ch == events.scoped[aid]
        IN  Len(ch) > 0 /\ ch[Len(ch)].data = answers[aid]

(***************************************************************************)
(* Claims about the result cache.                                          *)
(***************************************************************************)
\* C13 as stated: a lookup that finds a live entry returns an answer equal to
\* the answer that was stored; a lookup that finds none is a miss and the chain
\* is recomputed.
C13_HitReturnsWhatWasStored ==
    /\ qa.read = "hit" => qa.result = qa.stored
    /\ (qa.read = "miss" /\ qa.pc \in {"put", "finish", "returned"}) => qa.chain = "returned"

\* C13 amended: a lookup that finds a live entry returns the stored answer
\* decoded from its JSON text with cached set to true: answer and run_id are
\* the stored ones, computed is the stored value when that value survives
\* JSON (string keys, lists), else its JSON image; a lookup that finds no live
\* entry is a miss, and a run that missed returns only after the chain ran.
C13_HitReturnsStoredJsonMarkedCached ==
    /\ qa.read = "hit" =>
          /\ qa.result = [JsonLoads(JsonDumps(qa.stored)) EXCEPT !.cached = TRUE]
          /\ qa.result.answer = qa.stored.answer
          /\ qa.result.run_id = qa.stored.run_id
          /\ JsonNative(qa.stored.computed) => qa.result.computed = qa.stored.computed
          /\ qa.expect # {}
    /\ qa.read = "miss" => qa.expect = {}
    /\ (qa.read = "miss" /\ qa.pc \in {"put", "finish", "returned"}) =>
          /\ qa.chain = "returned"
          /\ qa.pc = "returned" => qa.result = qa.out

C13_Witness ==
    /\ qa.read = "hit"
    /\ qa.stored.computed = DictStrKey
    /\ qa.result.computed = DictStrKey

\* C14: a lookup hits exactly when a live entry was stored for a question of
\* the same normal form (trimmed, lower case) under the same fingerprint:
\* variants in case and outer whitespace share an entry, other fingerprints and
\* other normal forms do not.
C14_VariantsShareEntry ==
    qa.read \in {"hit", "miss"} => (qa.read = "hit" <=> qa.expect # {})

C14_Witness ==
    /\ qa.read = "hit"
    /\ qa.question \notin qa.expect
    /\ \E k \in DOMAIN cache : cache[k].fp # qa.fp

\* C15: a failure of the cache backend never fails the request: after a read
\* error the run goes on as on a miss, after a write error it returns the
\* computed answer, and the run raises only when the chain or the run log of
\* the graph database raised.
C15_CacheFailureNeverFailsRequest ==
    /\ qa.pc = "raised" => (qa.chain = "raised" \/ qa.log = "raised")
    /\ qa.read = "error" => qa.pc \in {"compute", "put", "finish", "returned", "raised"}
    /\ (qa.read = "error" /\ qa.pc \in {"put", "finish", "returned"}) => qa.chain = "returned"
    /\ (qa.write = "error" /\ qa.pc = "returned") =>
          qa.result = qa.out /\ qa.chain = "returned"

C15_Witness ==
    qa.pc = "returned" /\ qa.read = "error" /\ qa.write = "error"

(***************************************************************************)
(* Claims about the listing.                                               *)
(***************************************************************************)
\* C16: with nothing written in between, repeated list_answers_paginated calls
\* with the same status, filter, limit and cursor return the same items in the
\* same order and the same next_cursor.
C16_RepeatedListingReturnsTheSame ==
    walk.phase = "called" =>
        \A i \in 1..Len(walk.results) : walk.results[i] = walk.results[1]

\* the live answers matching the walk's filter that are in the scanned index
\* below the walk's cursor, in the order of the index: all of them without a
\* cursor, else those after the cursor's (updated_at, id) position
WalkBelowCursor ==
    LET z == IndexFor(walk.status)
        below(m) == \/ walk.cursor = NoCursor
                    \/ z[m] < walk.cursor[1]
                    \/ (z[m] = walk.cursor[1] /\ m < walk.cursor[2])
    IN  ZSortDesc(z, {m \in WalkMatches \cap DOMAIN z : below(m)})

\* C17: a page of limit L over more than L matching live answers below the
\* cursor holds the L most recent of them and a next_cursor made of the last
\* item's updated_at and id; a page over fewer than L holds them all and a
\* null next_cursor.
C17_PageHoldsMostRecentBelowCursor ==
    walk.phase = "walking" =>
        LET page == list_answers_paginated(walk.status, walk.q, walk.limit, walk.cursor)
            ids == [i \in 1..Len(page.items) |-> page.items[i].id]
            expected == [i \in 1..Len(WalkBelowCursor) |-> WalkBelowCursor[i][1]]
            L == walk.limit
        IN  /\ Len(expected) > L =>
                  /\ ids = SubSeq(expected, 1, L)
                  /\ page.next_cursor = MakeCursor(page.items[L])
            /\ Len(expected) < L =>
                  /\ ids = expected
                  /\ page.next_cursor = NoCursor

(***************************************************************************)
(* Claims about rebuild_index.                                             *)
(***************************************************************************)
\* the index entries derived from the live records of the given statuses
DerivedIndex(statuses) ==
    [aid \in {a \in DOMAIN answers : answers[a].status \in statuses} |->
        answers[aid].updated_at]

\* C18: after rebuild_index has run with nothing written meanwhile, the global
\* index holds exactly the live ids and each status index exactly the live
\* answers of that status, each scored with its updated_at; no record was
\* changed, and a second run leaves the same indexes.
C18_RebuildDerivesIndexesFromRecords ==
    rebuild.pc = "done" =>
        /\ index_all = [aid \in DOMAIN answers |-> answers[aid].updated_at]
        /\ \A st \in ALL_STATUSES : index_status[st] = DerivedIndex({st})
        /\ answers = rebuild.before
        /\ rebuild.runs = 2 => rebuild.last = <<index_all, index_status>>

C18_Witness ==
    /\ rebuild.pc = "done"
    /\ rebuild.runs = 2
    /\ Cardinality(DOMAIN answers) = 1
    /\ rebuild.last[1] = index_all
    /\ \E aid \in DOMAIN answers : answers[aid].status = "DONE"

\* C19: in every interleaving of a rebuild with the mutations, once the
\* rebuild has finished every live answer is in the global index and in exactly
\* the status index of the status stored in its record.
C19_RebuildIsSafeUnderTraffic ==
    rebuild.pc = "done" =>
        \A aid \in DOMAIN answers :
            /\ aid \in DOMAIN index_all
            /\ StatusIndexesOf(aid) = {answers[aid].status}

(***************************************************************************)
(* Claims about the submission handlers.                                   *)
(***************************************************************************)
ReqEnded(r) == r \in DOMAIN reqs /\ reqs[r].pc \in {"returned", "failed"}

\* C21: a submission in auto mode always returns, and what it returns is the
\* outcome of the answer (its data, or the answer record) or a pending
\* reference to it, never an error of the handler.
C21_AutoModeReturnsOutcomeOrPending ==
    \A r \in DOMAIN reqs :
        (reqs[r].handler = "ask:auto" /\ ReqEnded(r)) =>
            reqs[r].response.kind \in {"data", "outcome", "answer_id", "pending"}

\* C22: a submission whose idempotency key resolves to an answer that no
\* longer exists ends by returning the id of a new answer, and at that moment
\* the key resolves to that new, live answer.
C22_EvictedHitCreatesAndRebindsKey ==
    [][\A r \in DOMAIN reqs :
          (reqs[r].evicted /\ ~ReqEnded(r) /\ reqs'[r].pc \in {"returned", "failed"}) =>
              /\ reqs'[r].response.kind = "answer_id"
              /\ reqs'[r].response.answer_id = reqs'[r].answer_id
              /\ reqs'[r].answer_id \in DOMAIN answers'
              /\ IdempGet(idemp', reqs[r].key) = [hit |-> TRUE, answer_id |-> reqs'[r].answer_id]]_vars

(***************************************************************************)
(* Claims about the analysis runners.                                      *)
(***************************************************************************)
\* C23: analysis code that tries to open a file ends in a permission error
\* and never holds a file handle, whatever the path and whichever the runner.
C23_OpenAlwaysDenied ==
    (SandboxEnded /\ sandbox.code.stmt \in OpenStmts) =>
        /\ ~sandbox.handle
        /\ sandbox.pc = "raised" /\ sandbox.outcome = "PermissionError"

\* C24: analysis code never runs past the CPU bound: at the bound it has been
\* terminated, so a body that does not end cannot keep its caller waiting.
C24_RunIsBoundedByCpuLimit ==
    sandbox.pc # "idle" =>
        /\ sandbox.cpu <= CpuLimit
        /\ sandbox.cpu = CpuLimit => sandbox.pc = "killed"

(***************************************************************************)
(* Claims about the schema fingerprint.                                    *)
(***************************************************************************)
\* C25: two snapshots have the same fingerprint exactly when the databases
\* they were taken of have the same shape, whatever the order of discovery.
C25_FingerprintChangesIffShapeChanges ==
    snap.pc = "second" => ((snap.fp = snap.prev.fp) <=> (snap.shape = snap.prev.shape))

(***************************************************************************)
(* Claims about concurrent mutations.                                      *)
(***************************************************************************)
\* C26: once the submitter's and the worker's calls have ended, an answer the
\* worker has given a result or an error is DONE or FAILED, never QUEUED, and
\* holds its data or its error.
C26_JobIdWriteKeepsWorkerProgress ==
    Quiescent =>
        \A aid \in DOMAIN answers :
            finalized[aid] # {} =>
                /\ answers[aid].status \in TerminalStatuses
                /\ answers[aid].status = "DONE" => answers[aid].data # Null
                /\ answers[aid].status = "FAILED" => answers[aid].error # Null

\* C27: once concurrent mutations of an answer have ended, the answer is in
\* the status index of its stored status and in no other, and its score in
\* that index and in the global index is its stored updated_at.
C27_IndexesAgreeWithRecordAfterRace ==
    Quiescent =>
        \A aid \in DOMAIN answers :
            /\ StatusIndexesOf(aid) = {answers[aid].status}
            /\ aid \in DOMAIN index_all
            /\ index_all[aid] = answers[aid].updated_at
            /\ index_status[answers[aid].status][aid] = answers[aid].updated_at

(***************************************************************************)
(* Claims about the scan of the listing.                                   *)
(***************************************************************************)
\* C28: a call returns fewer items than the limit only when it has returned
\* every live answer that matches the filter, and then with a null cursor,
\* however many stale entries lie above the answers in the index.
C28_ShortPageOnlyWhenExhausted ==
    walk.phase = "called" =>
        \A i \in 1..Len(walk.results) :
            Len(walk.results[i].ids) < walk.limit =>
                /\ walk.results[i].next_cursor = NoCursor
                /\ \A aid \in WalkMatches :
                       \E k \in 1..Len(walk.results[i].ids) : walk.results[i].ids[k] = aid

\* C29: a walk during which a new answer was created has returned, at its
\* end, every matching answer that was live when it began exactly once, and
\* has not returned the new answer.
C29_WalkWithInsertsYieldsStartSetOnce ==
    (walk.phase = "finished" /\ Live(InsertedId)) =>
        /\ {walk.seen[i] : i \in 1..Len(walk.seen)} = WalkMatches \ {InsertedId}
        /\ Len(walk.seen) = Cardinality(WalkMatches \ {InsertedId})

\* C30: a call whose scan met stale index entries has removed their ids from
\* the global index and from every status index, has left them out of its
\* page, and has gone on to the live answers below them.
C30_StaleEntriesAreRemovedAndSkipped ==
    walk.phase = "called" =>
        /\ \A m \in DOMAIN index_all : Live(m)
        /\ \A st \in ALL_STATUSES : \A m \in DOMAIN index_status[st] : Live(m)
        /\ \A i \in 1..Len(walk.results) :
               \A k \in 1..Len(walk.results[i].ids) : Live(walk.results[i].ids[k])
        /\ Len(walk.results[1].ids) >= 1

\* a call has returned both live answers from below the stale entries
C30_Witness ==
    /\ walk.phase = "called"
    /\ Len(walk.results[1].ids) = 2
    /\ DOMAIN index_all = DOMAIN answers

\* C31: once the mutations and the scan have finished, no live answer is
\* missing from the global index or from the index of its status because the
\* scan removed its entry.
C31_ScanRemovesOnlyDeadEntries ==
    (walk.phase = "scanning" /\ walk.pending = 0 /\ Quiescent) =>
        \A aid \in walk.removed :
            Live(aid) =>
                /\ aid \in DOMAIN index_all
                /\ answers[aid].status \in StatusIndexesOf(aid)

(***************************************************************************)
(* Claims about mutations of missing records.                              *)
(***************************************************************************)
\* C32: a set_status, set_result or set_error call on an id that has no
\* record (here: the calls of a job whose answer was never created or has
\* been evicted) creates no record, adds or moves no index entry, publishes
\* no event and raises nothing.
C32_MutationOfMissingRecordIsNoOp ==
    [][(job' # job /\ ~Live(job.aid)) =>
          /\ answers' = answers
          /\ index_all' = index_all
          /\ index_status' = index_status
          /\ finalized' = finalized
          /\ events' = events
          /\ raised' = FALSE]_vars

\* a job has made all its calls on an evicted answer and returned
C32_Witness ==
    /\ job.pc = "returned"
    /\ job.calls = <<"set_status:RUNNING", "set_status:RUNNING", "set_result">>
    /\ ~Live(job.aid)
    /\ job.aid \in DOMAIN index_all

(***************************************************************************)
(* Claims about the timestamps of a record.                                *)
(***************************************************************************)
\* C33: every mutation of an answer leaves the record with updated_at equal
\* to the time of the mutation, and the answer with that same score in the
\* global index and in the index of its status (when its status has one).
C33_MutationRefreshesUpdatedAtAndScores ==
    [][\A aid \in Ids :
          MutationOf(aid) =>
              /\ answers'[aid].updated_at = now
              /\ index_all'[aid] = now
              /\ answers'[aid].status \in ALL_STATUSES =>
                     index_status'[answers'[aid].status][aid] = now]_vars

\* an answer updated after the millisecond of its creation, at the position
\* of its update
C33_Witness ==
    \E aid \in DOMAIN answers :
        /\ answers[aid].updated_at > answers[aid].created_at
        /\ answers[aid].status = "DONE"
        /\ index_all[aid] = answers[aid].updated_at
        /\ index_status["DONE"][aid] = answers[aid].updated_at

\* C34: from one stored version of a record to the next, updated_at does not
\* decrease, and it is never below created_at, whatever the interleaving of
\* the submitter's and the worker's mutations.
C34_UpdatedAtNeverDecreases ==
    [][\A aid \in DOMAIN answers :
          aid \in DOMAIN answers' =>
              /\ answers'[aid].updated_at >= answers[aid].updated_at
              /\ answers'[aid].updated_at >= answers'[aid].created_at]_vars

(***************************************************************************)
(* Claims about the repairer and the attempts log.                         *)
(***************************************************************************)
\* C35: the repairer is called only after a failed attempt that is not the
\* last allowed one, with the query that failed and its error text; the
\* attempt after a repair executes the query the repairer proposed; a run
\* with max_attempts = n >= 1 makes at most n - 1 repairer calls, and a run
\* with max_attempts = 1 makes one try and no repairer call.
C35_RepairOnlyBetweenAttempts ==
    /\ ex.pc = "repair" =>
           /\ Len(ex.attempts) >= 1 /\ Len(ex.attempts) < ex.max_attempts
           /\ ~ex.attempts[Len(ex.attempts)].ok
    /\ Len(ex.repair_calls) = ex.repairs
    /\ \A i \in 1..Len(ex.repair_calls) :
           /\ i < ex.max_attempts /\ i <= Len(ex.attempts)
           /\ ~ex.attempts[i].ok
           /\ ex.repair_calls[i].cypher = ex.attempts[i].cypher
           /\ ex.repair_calls[i].error = ex.attempts[i].error
           /\ (i + 1 <= Len(ex.attempts) /\ ex.repair_calls[i].proposed # NoKey) =>
                  ex.attempts[i + 1].cypher = ex.repair_calls[i].proposed
    /\ ex.max_attempts >= 1 => ex.repairs <= ex.max_attempts - 1
    /\ (ExEnded /\ ex.drafted /\ ex.max_attempts = 1) => (ex.execs = 1 /\ ex.repairs = 0)

\* a run of three attempts, the second and the third on repaired queries
C35_Witness ==
    /\ ExEnded /\ ex.max_attempts = 3
    /\ Len(ex.attempts) = 3 /\ Len(ex.repair_calls) = 2
    /\ ex.repair_calls[1].proposed # NoKey
    /\ ex.attempts[2].cypher = ex.repair_calls[1].proposed
    /\ ex.attempts[2].cypher # ex.attempts[1].cypher

\* what the caller of a run has of attempt i when the run has ended: the
\* entry of the returned log, or an event given to log_cb that carries the
\* query, the success flag and the error text of the attempt
Surfaced(i) ==
    \/ /\ i <= Len(ex.result.attempts)
       /\ ex.result.attempts[i] = ex.attempts[i]
    \/ \E k \in 1..Len(ex.cb) :
           /\ {"cypher", "ok", "error"} \subseteq DOMAIN ex.cb[k]
           /\ ex.cb[k].cypher = ex.attempts[i].cypher
           /\ ex.cb[k].ok = ex.attempts[i].ok
           /\ ex.cb[k].error = ex.attempts[i].error

\* C36: in every outcome of a run, the raising one included, the trace of
\* every attempt (query text, success flag, error text, repair rationale)
\* has been surfaced to the caller.
C36_TraceSurfacedInEveryOutcome ==
    ExEnded => \A i \in 1..Len(ex.attempts) : Surfaced(i)

\* C37: once an answer is FAILED its question, creation time and error text
\* stay as they are while its record lives, whatever store operation follows,
\* and no mutation of a live record changes its id, question, creation time
\* or meta.
C37_FailedRecordKeepsItsFields ==
    [][(Live(MetaId) /\ MetaId \in DOMAIN answers')
          => /\ answers'[MetaId].id = answers[MetaId].id
             /\ answers'[MetaId].question = answers[MetaId].question
             /\ answers'[MetaId].created_at = answers[MetaId].created_at
             /\ answers'[MetaId].meta = answers[MetaId].meta
             /\ (answers[MetaId].status = "FAILED" /\ answers[MetaId].error # Null)
                   => answers'[MetaId].error = answers[MetaId].error]_vars

\* C38: init_answer(id, question, meta) stores a live record of status QUEUED
\* with equal creation and update times, no job id, run id, data or error,
\* the meta supplied (the empty map when none is), and puts the id into the
\* global index and into the QUEUED index and no other.
C38_InitAnswerStoresQueuedRecord ==
    [][\A q \in MetaQuestions, um \in UserMetas :
          init_answer(MetaId, q, um)
             => /\ MetaId \in DOMAIN answers'
                /\ answers'[MetaId].id = MetaId
                /\ answers'[MetaId].question = q
                /\ answers'[MetaId].status = "QUEUED"
                /\ answers'[MetaId].created_at = now
                /\ answers'[MetaId].updated_at = answers'[MetaId].created_at
                /\ answers'[MetaId].job_id = Null
                /\ answers'[MetaId].run_id = Null
                /\ answers'[MetaId].data = Null
                /\ answers'[MetaId].error = Null
                /\ answers'[MetaId].meta = (IF um = NoMeta THEN {} ELSE um[1])
                /\ MetaId \in DOMAIN index_all'
                /\ \A s \in ALL_STATUSES :
                      MetaId \in DOMAIN index_status'[s] <=> s = "QUEUED"]_vars

\* an answer created with a meta of its own, after an earlier record of the
\* id ran and was evicted
C38_Witness ==
    /\ Live(MetaId)
    /\ answers[MetaId].status = "QUEUED"
    /\ answers[MetaId].meta = {<<"mode", "auto">>}
    /\ answers[MetaId].created_at > 0
    /\ answers[MetaId].job_id = Null
    /\ MetaId \in DOMAIN index_status["QUEUED"]

\* C39: the cache is written only after execution, analysis and composition
\* have succeeded, and a run that raises, at whatever stage, has not written
\* the cache entry of its question and fingerprint.
C39_RaisingRunLeavesCacheAlone ==
    /\ qa.write = "ok" => qa.chain = "returned"
    /\ qa.pc = "raised" => qa.write # "ok"

\* C40: a lookup that finds a live entry returns at once the decoded entry
\* marked cached, with no run record created, no query drafted or executed,
\* no analysis, no composition and no write of the cache; the entry stays as
\* it was.
C40_HitReturnsWithoutChainOrWrite ==
    [][(qa.pc = "get" /\ qa'.pc # "get" /\ qa'.read = "hit")
          => /\ qa'.pc = "returned"
             /\ qa'.result = [JsonLoads(cache[qa.ckey].text) EXCEPT !.cached = TRUE]
             /\ qa'.result.cached
             /\ qa'.result.run_id = cache[qa.ckey].stored.run_id
             /\ qa'.chain = "none" /\ qa'.failed_at = "none"
             /\ qa'.write = "none" /\ qa'.log = "none"
             /\ qa'.out = NoOut
             /\ cache' = cache]_vars

\* a hit on an entry that an earlier run with a run record wrote
C40_Witness ==
    /\ qa.pc = "returned"
    /\ qa.read = "hit"
    /\ qa.result.cached
    /\ qa.result.run_id = "run1"
    /\ qa.ckey \in DOMAIN cache
    /\ ~cache[qa.ckey].stored.cached

====
